---- MODULE Spec2Model ----
(***************************************************************************)
(* Staleness / cache engine of codemap: file index, aggregate hash, the    *)
(* three staleness tiers, the persisted cache state with its in-process    *)
(* read cache and write debounce, IsStale and EnsureUpToDate.              *)
(***************************************************************************)
EXTENDS Integers, Sequences, FiniteSets, TLC

(* ------------------------------ bounds --------------------------------- *)
\* number of clock ticks the environment may take
MaxTicks == 1
\* number of changes the environment may make to the source tree
MaxFsOps == 1
\* number of operations (IsStale / EnsureUpToDate / restart) of the program
MaxRuns == 3
\* milliseconds per clock tick
TickMs == 50
\* largest GOMAXPROCS value tried
MaxProcs == 2
\* operations run in the specification with cancellation
MaxCancelRuns == 2
\* cache writes requested, crashes and clock ticks of the stepwise write
MaxWrites == 3
MaxCrashes == 1
MaxWriteTicks == 2
MaxIndexFiles == 2
\* directories under the root of the walked tree
MaxWalkDirs == 3
\* jobs handed to a worker pool
MaxJobs == 2

(* -------------------------- program constants -------------------------- *)
codemapStateVersion == 4
analysisCacheVersionV2 == 2
\* writeFlushInterval = 100 * time.Millisecond
writeFlushInterval == 100

(* ------------------------------ universe ------------------------------- *)
\* tracked source files of the modelled tree; "a" is the only subdirectory
TrackedPaths == {"a.go", "a/b.go"}
\* order in which filepath.WalkDir reports them: directory "a" sorts before
\* the file "a.go" in the root listing, so its content is visited first
WalkOrder == <<"a/b.go", "a.go">>
\* file contents (abstract byte strings) and their length in bytes
Contents == {1, 2, 3}
SizeOf(c) == IF c = 3 THEN 2 ELSE 1

OutputName == "CODEMAP.md"
PathsName == "CODEMAP.paths"
StateName == ".codemap.state.json"
AnalysisName == ".codemap.state.analysis.json"
StateTmpName == ".codemap.state.json.tmp"
AnalysisTmpName == ".codemap.state.analysis.json.tmp"

\* byte-wise order of the strings used as names and relative paths
StrRank ==
  ( ".codemap.state.analysis.json" :> 1 @@ ".codemap.state.analysis.json.tmp" :> 2 @@
    ".codemap.state.json" :> 3 @@ ".codemap.state.json.tmp" :> 4 @@
    "CODEMAP.md" :> 5 @@ "CODEMAP.paths" :> 6 @@
    "a" :> 7 @@ "a.go" :> 8 @@ "a/b.go" :> 9 @@ "a/c.go" :> 10 @@ "." :> 0 )
StrLess(x, y) == StrRank[x] < StrRank[y]

\* filepath.Dir of a tracked relative path
DirOf(p) == IF p = "a.go" THEN "." ELSE "a"
InSubdir(p) == DirOf(p) # "."

(* ------------------------------ helpers -------------------------------- *)
RECURSIVE SetToSortedSeq(_)
SetToSortedSeq(S) ==
  IF S = {} THEN <<>>
  ELSE LET m == CHOOSE x \in S : \A y \in S : StrRank[x] <= StrRank[y]
       IN <<m>> \o SetToSortedSeq(S \ {m})

Range(s) == {s[i] : i \in 1..Len(s)}
RelPathLess(x, y) == StrLess(x.RelPath, y.RelPath)
IsSortedByRelPath(s) == \A i \in 1..Len(s) - 1 : StrLess(s[i].RelPath, s[i + 1].RelPath)

(* ------------------------------- hashing ------------------------------- *)
\* hex digests are modelled as injective encodings of the hashed bytes;
\* the empty string (no hash) is NoHash / NoContentHash
NoHash == <<>>
NoContentHash == 0
\* sha256 of a file's bytes
hashFileContents(c) == 10 + c
\* sha256 over relPath, 0, contentHash, 0 for each entry in sequence order
Sha256Entries(entries) ==
  << [i \in 1..Len(entries) |-> <<entries[i].RelPath, entries[i].ContentHash>>] >>

(* ------------------------------ the tree ------------------------------- *)
NoFile == [exists |-> FALSE, c |-> 0, m |-> 0]
FileOf(c, m) == [exists |-> TRUE, c |-> c, m |-> m]
NoDir == [exists |-> FALSE, m |-> 0]
DirOfTime(m) == [exists |-> TRUE, m |-> m]

\* matchLanguageForPath: every tracked path ends in ".go"
matchLanguageForPath(p) == [ID |-> "go", IsTest |-> FALSE]

\* a tree is [files, dir, names]: the tracked files, the subdirectory "a",
\* and the set of names os.ReadDir reports for the root
FileRecord(t, p) ==
  [RelPath |-> p, Size |-> SizeOf(t.files[p].c), M |-> t.files[p].m,
   Language |-> matchLanguageForPath(p).ID, IsTest |-> matchLanguageForPath(p).IsTest]

\* The walk visits the root, then each root entry in name order, descending
\* into "a" when it reaches it.  idx.Files and idx.Dirs are left in visiting
\* order; only idx.RootEntries is sorted.  The record of the root itself
\* ("." in idx.Dirs) is dropped by dirStateFromIndex and is left out here.
BuildFileIndexWithLanguages(t) ==
  [RootEntries |-> SetToSortedSeq(t.names),
   Dirs |-> IF t.dir.exists THEN <<[RelPath |-> "a", M |-> t.dir.m]>> ELSE <<>>,
   Files |-> LET present == SelectSeq(WalkOrder, LAMBDA p : t.files[p].exists)
             IN [i \in 1..Len(present) |-> FileRecord(t, present[i])]]

BuildFileIndex(t) == BuildFileIndexWithLanguages(t)

\* the walk fails: WalkDir hands the callback the error of reading a
\* directory and the callback returns it
WalkFails(t) == t.dir.exists /\ "a" \in t.denied

\* variant: a file that cannot be opened is hashed as an empty file
CannotHash_Never(t, p) == FALSE
\* hashFileContents fails: the file is gone or cannot be opened
CannotHash(t, p) == ~t.files[p].exists \/ p \in t.denied

dirStateFromIndex(idx) == SelectSeq(idx.Dirs, LAMBDA d : d.RelPath # ".")
dirRecordsFromState(dirs) == dirs
rootEntriesFromIndex(idx) == idx.RootEntries

(* --------------------------- the cache state --------------------------- *)
\* *CodemapState; NilState is the nil pointer.  The nested Analysis field is
\* kept in its own file and is modelled by the analysis cache below.
NilState ==
  [isNil |-> TRUE, Version |-> 0, AggregateHash |-> NoHash,
   RootEntries |-> <<>>, Dirs |-> <<>>, Entries |-> <<>>]

StateEntry(rec, contentHash) ==
  [RelPath |-> rec.RelPath, Size |-> rec.Size, M |-> rec.M,
   ContentHash |-> contentHash, Language |-> rec.Language, IsTest |-> rec.IsTest]

cloneCodemapState(state) == state

StateUsable(prev) ==
  ~prev.isNil /\ prev.Version = codemapStateVersion /\ prev.AggregateHash # NoHash

sortedStateEntries(prev) ==
  IF prev.isNil \/ prev.Version # codemapStateVersion \/ Len(prev.Entries) = 0
  THEN <<>> ELSE prev.Entries

RECURSIVE AdvancePos(_, _, _)
AdvancePos(prevEntries, relPath, pos) ==
  IF pos <= Len(prevEntries) /\ StrLess(prevEntries[pos].RelPath, relPath)
  THEN AdvancePos(prevEntries, relPath, pos + 1)
  ELSE pos

\* forward-only merge scan; pos is the shared cursor (1-based here)
findCachedEntry(prevEntries, relPath, pos) ==
  LET np == AdvancePos(prevEntries, relPath, pos)
      ok == np <= Len(prevEntries) /\ prevEntries[np].RelPath = relPath
  IN [pos |-> np, ok |-> ok, at |-> IF ok THEN np ELSE 0]

\* variants: the cached content hash is reused whatever the metadata; it is
\* reused on equal size alone
canReuse_AnyMetadata(cached, rec) == cached.ContentHash # NoContentHash
canReuse_SizeOnly(cached, rec) ==
  cached.Size = rec.Size /\ cached.ContentHash # NoContentHash
\* a cached entry is reused when size and modification time are unchanged
canReuse(cached, rec) ==
  cached.Size = rec.Size /\ cached.M = rec.M /\ cached.ContentHash # NoContentHash

\* the per-file loop shared by computeAggregateHash and
\* computeAggregateHashOnly: which files reuse the cached content hash
RECURSIVE ReuseScan(_, _, _, _, _)
ReuseScan(files, i, prevEntries, pos, acc) ==
  IF i > Len(files) THEN acc
  ELSE LET rec == files[i]
           f == findCachedEntry(prevEntries, rec.RelPath, pos)
           reuse == f.ok /\ canReuse(prevEntries[f.at], rec)
           e == StateEntry(rec, IF reuse THEN prevEntries[f.at].ContentHash ELSE NoContentHash)
       IN ReuseScan(files, i + 1, prevEntries, f.pos, Append(acc, e))

aggregateHashFromState(idx, prev) ==
  IF ~StateUsable(prev) THEN [ok |-> FALSE, hash |-> NoHash]
  ELSE IF Len(prev.Dirs) = 0 THEN [ok |-> FALSE, hash |-> NoHash]
  ELSE IF Len(idx.Files) # Len(prev.Entries) THEN [ok |-> FALSE, hash |-> NoHash]
  ELSE IF \E i \in 1..Len(idx.Files) :
            \/ idx.Files[i].RelPath # prev.Entries[i].RelPath
            \/ idx.Files[i].Size # prev.Entries[i].Size
            \/ idx.Files[i].M # prev.Entries[i].M
            \/ prev.Entries[i].ContentHash = NoContentHash
       THEN [ok |-> FALSE, hash |-> NoHash]
  ELSE [ok |-> TRUE, hash |-> prev.AggregateHash]

\* number of workers of a pool: GOMAXPROCS capped at the job count
\* variant: the count is not capped at the number of jobs
workerCount_NoCap(procs, njobs) == procs
workerCount(procs, njobs) == IF procs > njobs THEN njobs ELSE procs

\* hashMissingEntries: every entry without a content hash is read from the
\* tree t.  cancelled: the context is done while the pool runs; the
\* single-worker loop never looks at the context.
hashMissingEntries(entries, t, procs, done) ==
  LET jobs == {i \in 1..Len(entries) : entries[i].ContentHash = NoContentHash}
      missing == \E i \in jobs : CannotHash(t, entries[i].RelPath)
      filled == [i \in 1..Len(entries) |->
                   IF i \in jobs /\ t.files[entries[i].RelPath].exists
                   THEN [entries[i] EXCEPT !.ContentHash = hashFileContents(t.files[entries[i].RelPath].c)]
                   ELSE entries[i]]
  IN IF jobs = {} THEN [status |-> "ok", entries |-> entries, hashed |-> {}]
     ELSE IF workerCount(procs, Cardinality(jobs)) = 1
       THEN IF missing THEN [status |-> "error", entries |-> entries, hashed |-> {}]
            ELSE [status |-> "ok", entries |-> filled, hashed |-> {entries[i].RelPath : i \in jobs}]
     ELSE IF done THEN [status |-> "cancelled", entries |-> entries, hashed |-> {}]
     ELSE IF missing THEN [status |-> "error", entries |-> entries, hashed |-> {}]
     ELSE [status |-> "ok", entries |-> filled, hashed |-> {entries[i].RelPath : i \in jobs}]

\* computeAggregateHash(ctx, idx, prev): doneLoop / doneJobs say whether the
\* context is done when the per-file loop, resp. the hash pool, runs
computeAggregateHash(idx, prev, t, procs, doneLoop, doneJobs) ==
  LET result(fast, hm) ==
        IF fast.ok
          THEN [status |-> "ok", hash |-> fast.hash, next |-> cloneCodemapState(prev), hashed |-> {}]
        ELSE IF Len(idx.Files) > 0 /\ doneLoop
          THEN [status |-> "cancelled", hash |-> NoHash, next |-> NilState, hashed |-> {}]
        ELSE IF hm.status # "ok"
          THEN [status |-> hm.status, hash |-> NoHash, next |-> NilState, hashed |-> {}]
        ELSE [status |-> "ok", hash |-> Sha256Entries(hm.entries),
              next |-> [isNil |-> FALSE, Version |-> codemapStateVersion,
                        AggregateHash |-> Sha256Entries(hm.entries),
                        RootEntries |-> rootEntriesFromIndex(idx),
                        Dirs |-> dirStateFromIndex(idx),
                        Entries |-> hm.entries],
              hashed |-> hm.hashed]
  IN result(aggregateHashFromState(idx, prev),
            hashMissingEntries(ReuseScan(idx.Files, 1, sortedStateEntries(prev), 1, <<>>),
                               t, procs, doneJobs))

\* computeAggregateHashOnly(ctx, idx, prev): hashes inline, one file at a time
computeAggregateHashOnly(idx, prev, t, done) ==
  LET result(fast, entries) ==
        LET jobs == {i \in 1..Len(entries) : entries[i].ContentHash = NoContentHash}
            missing == \E i \in jobs : CannotHash(t, entries[i].RelPath)
            filled == [i \in 1..Len(entries) |->
                         IF i \in jobs /\ t.files[entries[i].RelPath].exists
                         THEN [entries[i] EXCEPT !.ContentHash = hashFileContents(t.files[entries[i].RelPath].c)]
                         ELSE entries[i]]
        IN IF fast.ok THEN [status |-> "ok", hash |-> fast.hash, hashed |-> {}]
           ELSE IF Len(idx.Files) > 0 /\ done
             THEN [status |-> "cancelled", hash |-> NoHash, hashed |-> {}]
           ELSE IF missing THEN [status |-> "error", hash |-> NoHash, hashed |-> {}]
           ELSE [status |-> "ok", hash |-> Sha256Entries(filled),
                 hashed |-> {entries[i].RelPath : i \in jobs}]
  IN result(aggregateHashFromState(idx, prev),
            ReuseScan(idx.Files, 1, sortedStateEntries(prev), 1, <<>>))

\* ComputeHash(ctx, root): full walk, no cache
ComputeHash(t) == computeAggregateHashOnly(BuildFileIndex(t), NilState, t, FALSE).hash

(* ----------------------- tier 1: metadata only ------------------------- *)
\* names the program writes itself (default options): ignoredRootEntryNames
IgnoredRootEntries == {OutputName, PathsName, StateName, AnalysisName}

filterRootEntries(entries, ignored) == SelectSeq(entries, LAMBDA n : n \notin ignored)

\* variants: the root's names are not compared at all; the names the
\* program writes itself are compared as well
rootEntriesMatchState_Always(t, expected, ignored) == TRUE
rootEntriesMatchState_NoIgnore(t, expected, ignored) ==
  SetToSortedSeq(t.names) = expected
rootEntriesMatchState(t, expected, ignored) ==
  SetToSortedSeq(t.names \ ignored) = filterRootEntries(expected, ignored)

\* variant: a recorded directory matches as soon as it still exists
directoryEntryMatches_ExistsOnly(t, dir) == t.dir.exists
directoryEntryMatches(t, dir) == t.dir.exists /\ t.dir.m = dir.M

resolveStateEntryLanguage(entry) ==
  IF entry.Language # "" THEN [ID |-> entry.Language, IsTest |-> entry.IsTest]
  ELSE matchLanguageForPath(entry.RelPath)

fileEntryMatches(t, entry) ==
  /\ entry.ContentHash # NoContentHash
  /\ t.files[entry.RelPath].exists
  /\ resolveStateEntryLanguage(entry).ID # ""
  /\ SizeOf(t.files[entry.RelPath].c) = entry.Size
  /\ t.files[entry.RelPath].m = entry.M

\* the context is looked at before every stat, so a done context is seen
\* as soon as there is at least one entry
directoriesMatchState(t, dirs, done) ==
  IF Len(dirs) = 0 THEN [status |-> "ok", match |-> TRUE]
  ELSE IF done THEN [status |-> "cancelled", match |-> FALSE]
  ELSE [status |-> "ok", match |-> \A i \in 1..Len(dirs) : directoryEntryMatches(t, dirs[i])]

filesMatchState(t, entries, done) ==
  IF Len(entries) = 0 THEN [status |-> "ok", match |-> TRUE]
  ELSE IF done THEN [status |-> "cancelled", match |-> FALSE]
  ELSE [status |-> "ok", match |-> \A i \in 1..Len(entries) : fileEntryMatches(t, entries[i])]

aggregateHashFromFilesystemState(t, prev, ignored, done) ==
  LET no == [status |-> "ok", ok |-> FALSE, hash |-> NoHash]
      result(dm, fm) ==
        IF ~StateUsable(prev) THEN no
        ELSE IF Len(prev.RootEntries) = 0 THEN no
        ELSE IF ~rootEntriesMatchState(t, prev.RootEntries, ignored) THEN no
        ELSE IF dm.status # "ok" THEN [status |-> dm.status, ok |-> FALSE, hash |-> NoHash]
        ELSE IF ~dm.match THEN no
        ELSE IF fm.status # "ok" THEN [status |-> fm.status, ok |-> FALSE, hash |-> NoHash]
        ELSE IF ~fm.match THEN no
        ELSE [status |-> "ok", ok |-> TRUE, hash |-> prev.AggregateHash]
  IN result(directoriesMatchState(t, prev.Dirs, done),
            filesMatchState(t, prev.Entries, done))

(* -------------------- tier 2: index from the cache --------------------- *)
EmptyIndex == [RootEntries |-> <<>>, Dirs |-> <<>>, Files |-> <<>>]

buildFileIndexFromState(t, prev, ignored, done) ==
  LET no == [status |-> "ok", ok |-> FALSE, idx |-> EmptyIndex, unchanged |-> FALSE]
      stop(st) == [status |-> st, ok |-> FALSE, idx |-> EmptyIndex, unchanged |-> FALSE]
      n == Len(prev.Entries)
      treeInvalid == \E i \in 1..n :
                        \/ ~t.files[prev.Entries[i].RelPath].exists
                        \/ resolveStateEntryLanguage(prev.Entries[i]).ID = ""
      unchanged == \A i \in 1..n :
                      /\ SizeOf(t.files[prev.Entries[i].RelPath].c) = prev.Entries[i].Size
                      /\ t.files[prev.Entries[i].RelPath].m = prev.Entries[i].M
      fileRecords == [i \in 1..n |->
                        [RelPath |-> prev.Entries[i].RelPath,
                         Size |-> SizeOf(t.files[prev.Entries[i].RelPath].c),
                         M |-> t.files[prev.Entries[i].RelPath].m,
                         Language |-> resolveStateEntryLanguage(prev.Entries[i]).ID,
                         IsTest |-> resolveStateEntryLanguage(prev.Entries[i]).IsTest]]
      result(dm) ==
        IF prev.isNil \/ prev.Version # codemapStateVersion
           \/ Len(prev.Entries) = 0 \/ prev.AggregateHash = NoHash THEN no
        ELSE IF ~rootEntriesMatchState(t, prev.RootEntries, ignored) THEN no
        ELSE IF dm.status # "ok" THEN stop(dm.status)
        ELSE IF ~dm.match THEN no
        ELSE IF done THEN stop("cancelled")
        ELSE IF treeInvalid THEN no
        ELSE [status |-> "ok", ok |-> TRUE,
              idx |-> [RootEntries |-> prev.RootEntries,
                       Dirs |-> dirRecordsFromState(prev.Dirs),
                       Files |-> fileRecords],
              unchanged |-> unchanged]
  IN result(directoriesMatchState(t, prev.Dirs, done))

(* ---------------------- persisted files and caches --------------------- *)
\* a cache file on disk: absent, a complete JSON document (data), a
\* truncated document (partial) or bytes that do not parse (corrupt)
AbsentFile(nil) == [kind |-> "absent", data |-> nil]
CompleteFile(d) == [kind |-> "ok", data |-> d]
PartialFile(d) == [kind |-> "partial", data |-> d]
CorruptFile(nil) == [kind |-> "corrupt", data |-> nil]

\* an entry of one of the process-wide read caches
NotCached(nil) == [cached |-> FALSE, v |-> nil]
Cached(v) == [cached |-> TRUE, v |-> v]

NoFlush == -1

\* variant: the version tag of the file is not compared
readState_AnyVersion(mem, disk) ==
  IF mem.cached THEN [state |-> mem.v, mem |-> mem]
  ELSE IF disk.kind # "ok" THEN [state |-> NilState, mem |-> mem]
  ELSE [state |-> disk.data, mem |-> Cached(cloneCodemapState(disk.data))]
\* readState(path): result and the read cache afterwards
readState(mem, disk) ==
  IF mem.cached THEN [state |-> mem.v, mem |-> mem]
  ELSE IF disk.kind # "ok" THEN [state |-> NilState, mem |-> mem]
  ELSE IF disk.data.Version # codemapStateVersion THEN [state |-> NilState, mem |-> mem]
  ELSE LET sorted == [disk.data EXCEPT
                        !.RootEntries = SortSeq(@, StrLess),
                        !.Dirs = SortSeq(@, RelPathLess),
                        !.Entries = SortSeq(@, RelPathLess)]
       IN [state |-> sorted, mem |-> Cached(cloneCodemapState(sorted))]

\* variant: every call flushes
writeStateDecision_NoDebounce(mem, last, state, now) ==
  IF state.isNil THEN [mem |-> mem, last |-> last, flush |-> FALSE]
  ELSE [mem |-> Cached(cloneCodemapState(state)), last |-> now, flush |-> TRUE]
\* variant: a write inside the flush interval is dropped altogether
writeStateDecision_DropDebounced(mem, last, state, now) ==
  IF state.isNil THEN [mem |-> mem, last |-> last, flush |-> FALSE]
  ELSE IF last # NoFlush /\ now - last < writeFlushInterval
    THEN [mem |-> mem, last |-> last, flush |-> FALSE]
  ELSE [mem |-> Cached(cloneCodemapState(state)), last |-> now, flush |-> TRUE]
\* writeState(path, state) up to the debounce decision: the read cache is
\* replaced first, then the flush time decides whether the disk is written
writeStateDecision(mem, last, state, now) ==
  IF state.isNil THEN [mem |-> mem, last |-> last, flush |-> FALSE]
  ELSE IF last # NoFlush /\ now - last < writeFlushInterval
    THEN [mem |-> Cached(cloneCodemapState(state)), last |-> last, flush |-> FALSE]
  ELSE [mem |-> Cached(cloneCodemapState(state)), last |-> now, flush |-> TRUE]

\* writeState(path, state) run to completion: os.WriteFile(tmp), os.Rename
writeState(mem, last, disk, state, now) ==
  LET result(d) == [mem |-> d.mem, last |-> d.last, flushed |-> d.flush,
                    disk |-> IF d.flush THEN CompleteFile(state) ELSE disk]
  IN result(writeStateDecision(mem, last, state, now))

(* --------------------------- analysis cache ---------------------------- *)
NilAnalysis ==
  [isNil |-> TRUE, Version |-> 0, IncludeTests |-> FALSE, LargePackageFiles |-> 0,
   ModulePath |-> "", Packages |-> <<>>]

\* default options and the module path of the modelled tree (no go.mod)
OptsIncludeTests == FALSE
OptsLargePackageFiles == 10
ModulePathOfTree == ""
\* the module path of a tree whose go.mod names a module
OtherModulePath == "example.com/m"

cloneAnalysisCache(cache) == cache
PkgPathLess(x, y) == StrLess(x.RelativePath, y.RelativePath)

readAnalysisCache(mem, disk) ==
  IF mem.cached THEN [cache |-> mem.v, mem |-> mem]
  ELSE IF disk.kind # "ok" THEN [cache |-> NilAnalysis, mem |-> mem]
  ELSE IF disk.data.Version # analysisCacheVersionV2 THEN [cache |-> NilAnalysis, mem |-> mem]
  ELSE LET sorted == [disk.data EXCEPT !.Packages = SortSeq(@, PkgPathLess)]
       IN [cache |-> sorted, mem |-> Cached(cloneAnalysisCache(sorted))]

\* writeAnalysisCache(path, cache): an empty cache removes the file and
\* forgets the flush time; otherwise as writeState
writeAnalysisCache(mem, last, disk, cache, now) ==
  IF cache.isNil \/ Len(cache.Packages) = 0
    THEN [mem |-> NotCached(NilAnalysis), last |-> NoFlush, flushed |-> FALSE,
          disk |-> AbsentFile(NilAnalysis)]
  ELSE IF last # NoFlush /\ now - last < writeFlushInterval
    THEN [mem |-> Cached(cloneAnalysisCache(cache)), last |-> last, flushed |-> FALSE,
          disk |-> disk]
  ELSE [mem |-> Cached(cloneAnalysisCache(cache)), last |-> now, flushed |-> TRUE,
        disk |-> CompleteFile(cache)]

(* ----------------------------- output files ---------------------------- *)
\* an output file is reduced to the hash parseHashLine extracts from its
\* first twenty lines (NoHash: no such line)
NoOutput == [exists |-> FALSE, hash |-> NoHash]
OutputWith(h) == [exists |-> TRUE, hash |-> h]

ReadExistingHash(mem, disk) ==
  IF mem.cached THEN [hash |-> mem.v, mem |-> mem]
  ELSE IF ~disk.exists THEN [hash |-> NoHash, mem |-> mem]
  ELSE [hash |-> disk.hash, mem |-> Cached(disk.hash)]

\* writeRenderedOutput: os.WriteFile of the rendering, then cacheExistingHash
writeRenderedOutput(h) == [disk |-> OutputWith(h), mem |-> Cached(h)]

(* ------------------------ planning and analysis ------------------------ *)
\* stateEntryByRelPath: the entry of a relative path, if any
EntryIndexOf(state, p) ==
  IF state.isNil THEN 0
  ELSE IF \E i \in 1..Len(state.Entries) : state.Entries[i].RelPath = p
    THEN CHOOSE i \in 1..Len(state.Entries) :
           /\ state.Entries[i].RelPath = p
           /\ \A j \in (i + 1)..Len(state.Entries) : state.Entries[j].RelPath # p
  ELSE 0

\* variant: a member without an entry or a content hash is left out
packageFingerprint_SkipUnhashed(fileRelPaths, state) ==
  IF Len(fileRelPaths) = 0 \/ state.isNil \/ Len(state.Entries) = 0 THEN NoHash
  ELSE LET hashed == SelectSeq(fileRelPaths, LAMBDA p :
                       /\ EntryIndexOf(state, p) # 0
                       /\ state.Entries[EntryIndexOf(state, p)].ContentHash # NoContentHash)
       IN << [i \in 1..Len(hashed) |->
               <<hashed[i], state.Entries[EntryIndexOf(state, hashed[i])].ContentHash>>] >>
\* sha256 over relPath, 0, contentHash, 0 of the member files in plan order;
\* empty when a member has no entry or no content hash
packageFingerprint(fileRelPaths, state) ==
  IF Len(fileRelPaths) = 0 \/ state.isNil \/ Len(state.Entries) = 0 THEN NoHash
  ELSE IF \E i \in 1..Len(fileRelPaths) :
            \/ EntryIndexOf(state, fileRelPaths[i]) = 0
            \/ state.Entries[EntryIndexOf(state, fileRelPaths[i])].ContentHash = NoContentHash
    THEN NoHash
  ELSE << [i \in 1..Len(fileRelPaths) |->
            <<fileRelPaths[i], state.Entries[EntryIndexOf(state, fileRelPaths[i])].ContentHash>>] >>

\* one plan per directory that holds an indexed file, plans in path order,
\* member files in index order
buildPackagePlansFromIndex(idx, includeTests, state) ==
  LET plansOf(kept) ==
        LET members(rel) == LET inDir(m) == [i \in 1..Len(m) |-> m[i].RelPath]
                            IN inDir(SelectSeq(kept, LAMBDA r : DirOf(r.RelPath) = rel))
            plan(rel, files) ==
              [RelativePath |-> rel, FileRelPaths |-> files,
               Fingerprint |-> packageFingerprint(files, state)]
            all(rels) == [k \in 1..Len(rels) |-> plan(rels[k], members(rels[k]))]
        IN all(SetToSortedSeq({DirOf(kept[i].RelPath) : i \in 1..Len(kept)}))
  IN plansOf(SelectSeq(idx.Files, LAMBDA r : includeTests \/ ~r.IsTest))

\* variant: the analysis cache is never looked at
cachedPackagesByPath_None(state, cache, includeTests, largePackageFiles, modulePath) == <<>>

\* variant: the scoping options of the cache are not compared
cachedPackagesByPath_AnyScope(state, cache, includeTests, largePackageFiles, modulePath) ==
  IF state.isNil \/ cache.isNil THEN <<>> ELSE cache.Packages

\* mergeStateWithAnalysis followed by cachedPackagesByPath: the cached
\* packages the run may look at (none when any scoping option differs)
cachedPackagesByPath(state, cache, includeTests, largePackageFiles, modulePath) ==
  IF state.isNil \/ cache.isNil THEN <<>>
  ELSE IF \/ cache.Version # analysisCacheVersionV2
          \/ cache.IncludeTests # includeTests
          \/ cache.LargePackageFiles # largePackageFiles
          \/ cache.ModulePath # modulePath THEN <<>>
  ELSE cache.Packages

\* no package: analyzePackage returned an error or found no Go package
NoPackage == [RelativePath |-> "", Src |-> <<>>]

\* parser.ParseDir fails: the directory is gone or cannot be listed, or one
\* of its .go files cannot be opened
ParseDirFails(t, rel) ==
  \/ rel = "a" /\ (~t.dir.exists \/ "a" \in t.denied)
  \/ \E p \in TrackedPaths : DirOf(p) = rel /\ t.files[p].exists /\ p \in t.denied

\* analyzePackage(dir): parses the .go files found in the directory now
analyzePackage(t, rel) ==
  LET present == SelectSeq(SetToSortedSeq(TrackedPaths),
                           LAMBDA p : DirOf(p) = rel /\ t.files[p].exists)
  IN IF ParseDirFails(t, rel) \/ Len(present) = 0 THEN NoPackage
     ELSE [RelativePath |-> rel,
           Src |-> [i \in 1..Len(present) |-> <<present[i], t.files[present[i]].c>>]]

\* variant: a unit whose analysis failed stays in the model, empty
collectPackages_KeepAll(results) == results
\* the merged model holds the results that are not nil, in plan order
collectPackages(results) == SelectSeq(results, LAMBDA pkg : pkg # NoPackage)

\* cachedByRel[rel]: the map built from the cached packages keeps, for a
\* relative path, the last package listed under it
cachedByRel(cachedPkgs, rel) ==
  {j \in 1..Len(cachedPkgs) :
     /\ cachedPkgs[j].RelativePath = rel
     /\ \A i \in (j + 1)..Len(cachedPkgs) : cachedPkgs[i].RelativePath # rel}

\* variant: a cached package is reused whatever its fingerprint
reusable_Always(cached, plan) == TRUE
\* ok && plan.Fingerprint != "" && cached.Fingerprint == plan.Fingerprint
reusable(cached, plan) ==
  plan.Fingerprint # NoHash /\ cached.Fingerprint = plan.Fingerprint

\* analyzeGoWithIndex: reuse by fingerprint, analyse the rest, rebuild the
\* analysis cache.  done: the context is done when the jobs run; seen: the
\* collector's select took the cancellation branch (pool with 2+ workers)
analyzeGoWithIndex(t, idx, state, cache, nextState, procs, done, seen) ==
  LET run(plans, cachedPkgs) ==
        LET hit(k) == {j \in cachedByRel(cachedPkgs, plans[k].RelativePath) :
                         reusable(cachedPkgs[j], plans[k])}
            last(h) == CHOOSE j \in h : \A i \in h : i <= j
            result(k, h) == IF h = {} THEN analyzePackage(t, plans[k].RelativePath)
                            ELSE cachedPkgs[last(h)].Package
            finish(jobs, results) ==
              IF /\ jobs # {} /\ done
                 /\ (workerCount(procs, Cardinality(jobs)) = 1 \/ seen)
                THEN [status |-> "cancelled", packages |-> <<>>, plans |-> <<>>,
                      cacheRead |-> 0, cacheUsable |-> 0,
                      analysis |-> NilAnalysis, analyzed |-> {}]
              ELSE [status |-> "ok", packages |-> collectPackages(results), plans |-> plans,
                    cacheRead |-> Len(cache.Packages), cacheUsable |-> Len(cachedPkgs),
                    analysis |-> [isNil |-> FALSE, Version |-> analysisCacheVersionV2,
                                  IncludeTests |-> OptsIncludeTests,
                                  LargePackageFiles |-> OptsLargePackageFiles,
                                  ModulePath |-> ModulePathOfTree,
                                  Packages |->
                                    SelectSeq([k \in 1..Len(plans) |->
                                                 [RelativePath |-> plans[k].RelativePath,
                                                  Fingerprint |-> plans[k].Fingerprint,
                                                  FileRelPaths |-> plans[k].FileRelPaths,
                                                  Package |-> results[k]]],
                                              LAMBDA cp : /\ cp.Package # NoPackage
                                                          /\ cp.Fingerprint # NoHash)],
                    analyzed |-> {plans[k].RelativePath : k \in jobs}]
        IN finish({k \in 1..Len(plans) : hit(k) = {}},
                  [k \in 1..Len(plans) |-> result(k, hit(k))])
  IN run(buildPackagePlansFromIndex(idx, OptsIncludeTests, nextState),
         cachedPackagesByPath(state, cache, OptsIncludeTests,
                              OptsLargePackageFiles, ModulePathOfTree))

(* ------------------------------- state --------------------------------- *)
VARIABLES
  fs,                \* tracked path -> file (content, modification time)
  dirA,              \* the subdirectory "a"
  denied,            \* paths that cannot be opened for reading
  clock,             \* wall clock in milliseconds
  stateDisk,         \* .codemap.state.json
  stateTmp,          \* .codemap.state.json.tmp
  stateFileCache,    \* process-wide read cache of the state file
  stateLastFlush,    \* time of the last flushed state write
  analysisDisk,      \* .codemap.state.analysis.json
  analysisTmp,       \* .codemap.state.analysis.json.tmp
  analysisFileCache, \* process-wide read cache of the analysis cache
  analysisLastFlush, \* time of the last flushed analysis write
  outDisk,           \* CODEMAP.md
  pathsDisk,         \* CODEMAP.paths
  hashFileCache,     \* process-wide cache of the outputs' hashes
  res,               \* what the last operation returned and did
  nRuns,             \* operations run so far
  nFs,               \* environment changes made so far
  quiet,             \* no tree change since the last successful EnsureUpToDate
  pc,                \* position inside a stepwise cache write
  wr,                \* the cache write in progress
  registry,          \* language id -> the analyzer registered for it
  engine,            \* what the last AnalyzeWithRegistry call did and returned
  wtree,             \* a tree of named directories: name -> shape
  walkRes,           \* what the last walk of that tree visited and returned
  pcall,             \* the pool call: its jobs, its calling goroutine, what it returned
  ctxDone,           \* the cancellation signal of the call's context
  jobsClosed,        \* jobsCh is closed
  resultsCh,         \* results sent and not yet received
  errCh,             \* the error kept for the caller (at most one)
  workersSt,         \* worker -> its position and the job it holds
  poolOut,           \* output slot -> the result stored there (0: none)
  ptrace,            \* which jobs were handed over, begun and ended, and when
  rc,                \* the position of a run of EnsureUpToDate taken step by step
  writers,           \* process -> the position of its write of the state path
  lrun,              \* a tree of several languages, its analysis cache, the last run
  fprun              \* an index and a state handed to the planning, and its plans

vars ==
  <<fs, dirA, denied, clock, stateDisk, stateTmp, stateFileCache, stateLastFlush,
    analysisDisk, analysisTmp, analysisFileCache, analysisLastFlush,
    outDisk, pathsDisk, hashFileCache, res, nRuns, nFs, quiet, pc, wr,
    registry, engine, wtree, walkRes,
    pcall, ctxDone, jobsClosed, resultsCh, errCh, workersSt, poolOut, ptrace, rc,
    writers, lrun, fprun>>

treeVars == <<fs, dirA, denied>>
stateFileVars == <<stateDisk, stateTmp, stateFileCache, stateLastFlush>>
analysisFileVars == <<analysisDisk, analysisTmp, analysisFileCache, analysisLastFlush>>
outputVars == <<outDisk, pathsDisk, hashFileCache>>
writeVars == <<pc, wr>>
engineVars == <<registry, engine>>
walkVars == <<wtree, walkRes>>
poolVars == <<pcall, ctxDone, jobsClosed, resultsCh, errCh, workersSt, poolOut, ptrace>>
runVars == <<rc>>
writerVars == <<writers>>
unitVars == <<lrun, fprun>>

\* names os.ReadDir reports for the root
RootNamesOf(f, d, sd, st, ad, at, od, pd) ==
  {n \in DOMAIN StrRank :
     \/ n = "a" /\ d.exists
     \/ n = "a.go" /\ f["a.go"].exists
     \/ n = StateName /\ sd.kind # "absent"
     \/ n = StateTmpName /\ st.kind # "absent"
     \/ n = AnalysisName /\ ad.kind # "absent"
     \/ n = AnalysisTmpName /\ at.kind # "absent"
     \/ n = OutputName /\ od.exists
     \/ n = PathsName /\ pd.exists}

TreeOf(f, d, sd, st, ad, at, od, pd) ==
  [files |-> f, dir |-> d, names |-> RootNamesOf(f, d, sd, st, ad, at, od, pd),
   denied |-> {}]

EmptyTree ==
  [files |-> [p \in TrackedPaths |-> NoFile], dir |-> NoDir, names |-> {}, denied |-> {}]

CurTree ==
  [TreeOf(fs, dirA, stateDisk, stateTmp, analysisDisk, analysisTmp, outDisk, pathsDisk)
     EXCEPT !.denied = denied]

(* ----------------------------- cancellation ---------------------------- *)
\* The places of an operation at which the context may become done, in
\* program order; a context done at a place is done at every later one.
PhaseNum ==
  [start |-> 1, tier1 |-> 2, hashOnly |-> 2, walk |-> 3, hash |-> 4,
   pool |-> 5, analyze |-> 6, write |-> 7]
NeverCancelled == 8
CancelPoints == 1..NeverCancelled
\* variant: the context is never looked at
Done_Never(cancelAt, phase) == FALSE
Done(cancelAt, phase) == cancelAt <= PhaseNum[phase]

(* ------------------------------- IsStale ------------------------------- *)
NoResult ==
  [op |-> "none", status |-> "ok", stale |-> FALSE, generated |-> FALSE,
   hash |-> NoHash, hashed |-> {}, analyzed |-> {}, walked |-> FALSE,
   fromCache |-> FALSE, cancelAt |-> NeverCancelled, model |-> <<>>, wrote |-> FALSE,
   contentHashes |-> {}, plans |-> <<>>, cacheRead |-> 0, cacheUsable |-> 0]

\* the second half of IsStale: full walk and recompute
IsStaleFullWalk(t, state, cancelAt) ==
  IF Done(cancelAt, "walk") THEN [status |-> "cancelled", hash |-> NoHash, hashed |-> {}]
  ELSE IF WalkFails(t) THEN [status |-> "error", hash |-> NoHash, hashed |-> {}]
  ELSE computeAggregateHashOnly(BuildFileIndex(t), state, t, Done(cancelAt, "hash"))

\* the hash IsStale arrives at: tier 2, then tier 1, then the full walk
IsStaleCurrentHash(t, state, cancelAt) ==
  LET r(st, h, hd, w, fc) == [status |-> st, hash |-> h, hashed |-> hd, walked |-> w, fromCache |-> fc]
      walk(full) == r(full.status, full.hash, full.hashed, full.status = "ok", FALSE)
      tiers(b, f) ==
        IF b.status # "ok" THEN r(b.status, NoHash, {}, FALSE, FALSE)
        ELSE IF b.ok THEN
          IF b.unchanged THEN r("ok", state.AggregateHash, {}, FALSE, TRUE)
          ELSE LET hashed(only) == r(only.status, only.hash, only.hashed, FALSE, FALSE)
               IN hashed(computeAggregateHashOnly(b.idx, state, t, Done(cancelAt, "hashOnly")))
        ELSE IF f.status # "ok" THEN r(f.status, NoHash, {}, FALSE, FALSE)
        ELSE IF f.ok THEN r("ok", state.AggregateHash, {}, FALSE, TRUE)
        ELSE r("ok", NoHash, {}, FALSE, FALSE)
      pick(first) ==
        IF first.status = "ok" /\ first.hash = NoHash
          THEN walk(IsStaleFullWalk(t, state, cancelAt))
          ELSE first
  IN pick(tiers(buildFileIndexFromState(t, state, IgnoredRootEntries, Done(cancelAt, "start")),
                aggregateHashFromFilesystemState(t, state, IgnoredRootEntries,
                                                 Done(cancelAt, "tier1"))))

\* variant: only the presence of the recorded hashes decides the verdict
IsStale_PresenceOnly(cancelAt) ==
  LET base == [NoResult EXCEPT !.op = "IsStale", !.cancelAt = cancelAt]
      verdict(eh, ph, rs) ==
        LET compared(cur) ==
              [out |-> [base EXCEPT !.stale = (eh.hash = NoHash \/ ph.hash = NoHash),
                                    !.status = cur.status, !.hash = cur.hash],
               hfc |-> [out |-> eh.mem, paths |-> ph.mem], sfc |-> rs.mem]
        IN compared(IsStaleCurrentHash(CurTree, rs.state, cancelAt))
  IN verdict(ReadExistingHash(hashFileCache.out, outDisk),
             ReadExistingHash(hashFileCache.paths, pathsDisk),
             readState(stateFileCache, stateDisk))

\* variant: outputs that carry a hash are never reported stale
IsStale_NeverStale(cancelAt) ==
  [IsStale_PresenceOnly(cancelAt) EXCEPT !.out.stale = FALSE]

IsStale(cancelAt) ==
  LET base == [NoResult EXCEPT !.op = "IsStale", !.cancelAt = cancelAt]
      verdict(eh, ph, rs) ==
        LET compared(cur) ==
              IF cur.status # "ok"
                THEN [out |-> [base EXCEPT !.status = cur.status],
                      hfc |-> [out |-> eh.mem, paths |-> ph.mem], sfc |-> rs.mem]
              ELSE [out |-> [base EXCEPT !.stale = (eh.hash # cur.hash \/ ph.hash # cur.hash),
                                         !.hash = cur.hash, !.hashed = cur.hashed,
                                         !.walked = cur.walked, !.fromCache = cur.fromCache],
                    hfc |-> [out |-> eh.mem, paths |-> ph.mem], sfc |-> rs.mem]
        IN IF eh.hash = NoHash
             THEN [out |-> [base EXCEPT !.stale = TRUE],
                   hfc |-> [hashFileCache EXCEPT !.out = eh.mem], sfc |-> stateFileCache]
           ELSE IF ph.hash = NoHash
             THEN [out |-> [base EXCEPT !.stale = TRUE],
                   hfc |-> [out |-> eh.mem, paths |-> ph.mem], sfc |-> stateFileCache]
           ELSE compared(IsStaleCurrentHash(CurTree, rs.state, cancelAt))
  IN verdict(ReadExistingHash(hashFileCache.out, outDisk),
             ReadExistingHash(hashFileCache.paths, pathsDisk),
             readState(stateFileCache, stateDisk))

(* ---------------------------- EnsureUpToDate --------------------------- *)
\* default options: both outputs are written and compared
OptsDisablePaths == FALSE

\* variant: the outputs are never taken to be up to date
OutputsCarry_Never(existingHash, existingPathsHash, currentHash) == FALSE
\* the "outputs already carry this hash" test repeated through EnsureUpToDate
OutputsCarry(existingHash, existingPathsHash, currentHash) ==
  /\ existingHash # NoHash /\ existingHash = currentHash
  /\ (OptsDisablePaths \/ (existingPathsHash # NoHash /\ existingPathsHash = currentHash))

\* what an operation leaves behind when it writes nothing
Untouched(out, hfc, sfc, afc) ==
  [out |-> out, hfc |-> hfc, sfc |-> sfc, afc |-> afc,
   sd |-> stateDisk, slf |-> stateLastFlush,
   ad |-> analysisDisk, alf |-> analysisLastFlush,
   od |-> outDisk, pd |-> pathsDisk]

\* the (relative path, content hash) pairs a state records
ContentHashesOf(state) ==
  {<<state.Entries[i].RelPath, state.Entries[i].ContentHash>> : i \in 1..Len(state.Entries)}

generateOutputs(t, state, nextState, currentHash, idx, base, hfc, sfc, procs, cancelAt, seen) ==
  LET written(an, o, ws, wa) ==
        [out |-> [base EXCEPT !.generated = TRUE, !.hash = currentHash,
                              !.analyzed = an.analyzed, !.model = an.packages,
                              !.wrote = TRUE,
                              !.contentHashes = ContentHashesOf(nextState),
                              !.plans = an.plans,
                              !.cacheRead = an.cacheRead, !.cacheUsable = an.cacheUsable],
         hfc |-> [out |-> o.mem, paths |-> IF OptsDisablePaths THEN hfc.paths ELSE o.mem],
         od |-> o.disk,
         pd |-> IF OptsDisablePaths THEN pathsDisk ELSE o.disk,
         sfc |-> ws.mem, slf |-> ws.last, sd |-> ws.disk,
         afc |-> wa.mem, alf |-> wa.last, ad |-> wa.disk]
      render(ra, an) ==
        IF an.status # "ok"
          THEN Untouched([base EXCEPT !.status = an.status], hfc, sfc, ra.mem)
        ELSE written(an, writeRenderedOutput(currentHash),
                     writeState(sfc, stateLastFlush, stateDisk, nextState, clock),
                     writeAnalysisCache(ra.mem, analysisLastFlush, analysisDisk,
                                        an.analysis, clock))
      analyze(ra) ==
        render(ra, analyzeGoWithIndex(t, idx, state, ra.cache, nextState, procs,
                                      Done(cancelAt, "analyze"), seen))
  IN analyze(readAnalysisCache(analysisFileCache, analysisDisk))

\* computeAggregateHash, the comparison with the outputs, generateOutputs
RecomputeAndGenerate(t, state, idx, eh, ph, base, hfc, sfc, procs, cancelAt, seen) ==
  LET compare(ch) ==
        IF ch.status # "ok"
          THEN Untouched([base EXCEPT !.status = ch.status], hfc, sfc, analysisFileCache)
        ELSE IF OutputsCarry(eh, ph, ch.hash)
          THEN Untouched([base EXCEPT !.hashed = @ \cup ch.hashed, !.hash = ch.hash],
                         hfc, sfc, analysisFileCache)
        ELSE generateOutputs(t, state, ch.next, ch.hash, idx,
                             [base EXCEPT !.hashed = @ \cup ch.hashed],
                             hfc, sfc, procs, cancelAt, seen)
  IN compare(computeAggregateHash(idx, state, t, procs,
                                  Done(cancelAt, "hash"), Done(cancelAt, "pool")))

EnsureUpToDate(procs, cancelAt, seen) ==
  LET base == [NoResult EXCEPT !.op = "EnsureUpToDate", !.cancelAt = cancelAt]
      run(t, rs, e, p) ==
        LET state == rs.state
            hfc == [out |-> e.mem, paths |-> p.mem]
            sfc == rs.mem
            stop(st) == Untouched([base EXCEPT !.status = st], hfc, sfc, analysisFileCache)
            fresh(h, fc, hd) ==
              Untouched([base EXCEPT !.hash = h, !.fromCache = fc, !.hashed = hd],
                        hfc, sfc, analysisFileCache)
            fromState(b, only) ==
              IF only.status # "ok" THEN stop(only.status)
              ELSE IF OutputsCarry(e.hash, p.hash, only.hash)
                THEN fresh(only.hash, FALSE, only.hashed)
              ELSE RecomputeAndGenerate(t, state, b.idx, e.hash, p.hash,
                                        [base EXCEPT !.hashed = only.hashed],
                                        hfc, sfc, procs, cancelAt, seen)
            fromMetadata(f) ==
              IF f.status # "ok" THEN stop(f.status)
              ELSE IF f.ok /\ OutputsCarry(e.hash, p.hash, f.hash) THEN fresh(f.hash, TRUE, {})
              ELSE IF Done(cancelAt, "walk") THEN stop("cancelled")
              ELSE IF WalkFails(t) THEN stop("error")
              ELSE RecomputeAndGenerate(t, state, BuildFileIndex(t), e.hash, p.hash,
                                        [base EXCEPT !.walked = TRUE],
                                        hfc, sfc, procs, cancelAt, seen)
            tiers(b) ==
              IF b.status # "ok" THEN stop(b.status)
              ELSE IF b.ok THEN
                IF b.unchanged
                  THEN IF OutputsCarry(e.hash, p.hash, state.AggregateHash)
                         THEN fresh(state.AggregateHash, TRUE, {})
                       ELSE RecomputeAndGenerate(t, state, b.idx, e.hash, p.hash, base,
                                                 hfc, sfc, procs, cancelAt, seen)
                ELSE fromState(b, computeAggregateHashOnly(b.idx, state, t,
                                                           Done(cancelAt, "hashOnly")))
              ELSE fromMetadata(aggregateHashFromFilesystemState(
                                  t, state, IgnoredRootEntries, Done(cancelAt, "tier1")))
        IN tiers(buildFileIndexFromState(t, state, IgnoredRootEntries,
                                         Done(cancelAt, "start")))
  IN run(CurTree, readState(stateFileCache, stateDisk),
         ReadExistingHash(hashFileCache.out, outDisk),
         IF OptsDisablePaths THEN [hash |-> NoHash, mem |-> hashFileCache.paths]
         ELSE ReadExistingHash(hashFileCache.paths, pathsDisk))

(* -------------------------- analyzer registry -------------------------- *)
languageGo == "go"
languageRust == "rust"
languageTypeScript == "typescript"
\* a language the walk may report and no analyzer is written for
languageOther == "python"
\* the language of an analyzer of the caller's own, sorting before Go
languageCustom == "c"
\* FileRecord.Language of a file of no recognised language
NoLanguage == ""

\* sort.Strings order of the language identifiers
LangRank == [c |-> 0, go |-> 1, python |-> 2, rust |-> 3, typescript |-> 4]
LangLess(x, y) == LangRank[x] < LangRank[y]

\* what an analyzer returns when run: a model with packages and concerns
\* ("model"), a model with packages and nil concerns ("bare"), a nil model
\* ("nil") or an error ("error")
NoAnalyzer == "none"
AnalyzerKinds == {"model", "bare", "nil", "error"}
RegistrableLanguages == {languageCustom, languageGo, languageRust, languageTypeScript}

NilRegistry == [isNil |-> TRUE, analyzers |-> [l \in RegistrableLanguages |-> NoAnalyzer]]
NewAnalyzerRegistry == [isNil |-> FALSE, analyzers |-> [l \in RegistrableLanguages |-> NoAnalyzer]]
\* Register(analyzer): adds or replaces the analyzer of its language
RegistryRegister(r, id, kind) ==
  IF r.isNil \/ kind = NoAnalyzer THEN r ELSE [r EXCEPT !.analyzers[id] = kind]
DefaultAnalyzerRegistry ==
  RegistryRegister(RegistryRegister(RegistryRegister(NewAnalyzerRegistry,
    languageGo, "model"), languageTypeScript, "model"), languageRust, "model")

AnalyzerFor(r, id) ==
  IF r.isNil \/ id \notin DOMAIN r.analyzers \/ r.analyzers[id] = NoAnalyzer
    THEN [ok |-> FALSE, analyzer |-> NoAnalyzer]
  ELSE [ok |-> TRUE, analyzer |-> r.analyzers[id]]

\* the keys of a map in the order a range loop happens to give them
RECURSIVE MapKeys(_)
MapKeys(S) ==
  IF S = {} THEN <<>>
  ELSE LET k == CHOOSE x \in S : TRUE IN <<k>> \o MapKeys(S \ {k})

\* variant: the identifiers are returned in descending order
LanguageIDs_Descending(r) ==
  IF r.isNil THEN <<>>
  ELSE SortSeq(MapKeys({id \in DOMAIN r.analyzers : r.analyzers[id] # NoAnalyzer}),
               LAMBDA x, y : LangLess(y, x))
\* LanguageIDs(): the registered identifiers, sorted
LanguageIDs(r) ==
  IF r.isNil THEN <<>>
  ELSE SortSeq(MapKeys({id \in DOMAIN r.analyzers : r.analyzers[id] # NoAnalyzer}), LangLess)

NilLangIndex == [isNil |-> TRUE, Files |-> <<>>]
LangIndexOf(langs) ==
  [isNil |-> FALSE, Files |-> [i \in 1..Len(langs) |-> [Language |-> langs[i]]]]

\* variant: every registered analyzer is selected
selectedAnalyzerLanguageIDs_All(idx, r) ==
  IF idx.isNil \/ r.isNil THEN <<>> ELSE LanguageIDs(r)
selectedAnalyzerLanguageIDs(idx, r) ==
  IF idx.isNil \/ r.isNil THEN <<>>
  ELSE LET present == {idx.Files[i].Language : i \in 1..Len(idx.Files)} \ {NoLanguage}
       IN SelectSeq(LanguageIDs(r), LAMBDA id : id \in present)

\* variant: Go is named whether it is registered or not
fallbackAnalyzerLanguageID_AlwaysGo(r) == [id |-> languageGo, ok |-> TRUE]
\* variant: the first registered identifier, whether Go is registered or not
fallbackAnalyzerLanguageID_First(r) ==
  IF r.isNil \/ Len(LanguageIDs(r)) = 0 THEN [id |-> "", ok |-> FALSE]
  ELSE [id |-> LanguageIDs(r)[1], ok |-> TRUE]
fallbackAnalyzerLanguageID(r) ==
  IF r.isNil THEN [id |-> "", ok |-> FALSE]
  ELSE IF AnalyzerFor(r, languageGo).ok THEN [id |-> languageGo, ok |-> TRUE]
  ELSE IF Len(LanguageIDs(r)) = 0 THEN [id |-> "", ok |-> FALSE]
  ELSE [id |-> LanguageIDs(r)[1], ok |-> TRUE]

\* the packages and concerns the analyzer of a language returns
ImportPathOf ==
  [c |-> "c-app", go |-> "example.com/app", rust |-> "rust-app", typescript |-> "ts-app"]
ImportRank == [c |-> 0, go |-> 1, rust |-> 2, typescript |-> 3]
AnalyzerPackages(id) ==
  <<[RelativePath |-> ".", ImportPath |-> ImportPathOf[id], lang |-> id]>>
NilConcerns == "nil"
BuiltConcerns == "buildConcerns"
AnalyzerConcerns(id, kind) == IF kind = "model" THEN id ELSE NilConcerns
\* all packages have relative path ".": the import path decides
sortPackages(packages) ==
  SortSeq(packages, LAMBDA x, y : ImportRank[x.lang] < ImportRank[y.lang])

NoEngineRun ==
  [op |-> "none", status |-> "ok", err |-> "", index |-> NilLangIndex, defaulted |-> FALSE,
   registry |-> NilRegistry,
   selected |-> <<>>, fellBack |-> FALSE, calls |-> <<>>, packages |-> <<>>,
   concerns |-> NilConcerns]

\* variant: the first concerns that are not nil are kept
mergedConcerns_FirstNonNil(i, current, concerns) ==
  IF current = NilConcerns THEN concerns ELSE current
\* merged.Concerns after the model of the analyzer at position i is merged
mergedConcerns(i, current, concerns) == IF i = 1 THEN concerns ELSE current

\* the loop of AnalyzeWithRegistry over selectedIDs, from position i
RECURSIVE runSelected(_, _, _, _)
runSelected(r, ids, i, acc) ==
  IF i > Len(ids) THEN acc
  ELSE LET step(a) ==
             IF ~a.ok
               THEN [acc EXCEPT !.status = "error", !.err = "no analyzer registered for language"]
             ELSE IF a.analyzer = "error"
               THEN [acc EXCEPT !.calls = Append(@, ids[i]),
                                !.status = "error", !.err = "analyzer failed"]
             ELSE IF a.analyzer = "nil"
               THEN runSelected(r, ids, i + 1, [acc EXCEPT !.calls = Append(@, ids[i])])
             ELSE runSelected(r, ids, i + 1,
                    [acc EXCEPT !.calls = Append(@, ids[i]),
                                !.packages = @ \o AnalyzerPackages(ids[i]),
                                !.concerns = mergedConcerns(i, @,
                                               AnalyzerConcerns(ids[i], a.analyzer))])
       IN step(AnalyzerFor(r, ids[i]))

AnalyzeWithRegistry(idx, registryArg) ==
  LET base == [NoEngineRun EXCEPT !.op = "AnalyzeWithRegistry", !.index = idx,
                                  !.defaulted = registryArg.isNil]
      finish(out) ==
        IF out.status # "ok" THEN [out EXCEPT !.packages = <<>>, !.concerns = NilConcerns]
        ELSE [out EXCEPT !.packages = sortPackages(@),
                         !.concerns = IF @ = NilConcerns THEN BuiltConcerns ELSE @]
      run(r, selectedIDs, fallback) ==
        IF Len(selectedIDs) = 0
          THEN IF ~fallback.ok
                 THEN [base EXCEPT !.registry = r,
                                   !.status = "error", !.err = "no analyzers registered"]
               ELSE finish(runSelected(r, <<fallback.id>>, 1,
                                       [base EXCEPT !.registry = r,
                                                    !.selected = <<fallback.id>>,
                                                    !.fellBack = TRUE]))
        ELSE finish(runSelected(r, selectedIDs, 1,
                                [base EXCEPT !.registry = r, !.selected = selectedIDs]))
      withRegistry(r) ==
        run(r, selectedAnalyzerLanguageIDs(idx, r), fallbackAnalyzerLanguageID(r))
  IN IF idx.isNil THEN [base EXCEPT !.status = "error", !.err = "missing file index"]
     ELSE withRegistry(IF registryArg.isNil THEN DefaultAnalyzerRegistry ELSE registryArg)

(* --------------------------- walk of named dirs ------------------------- *)
\* Directory names under the root of the walked tree. A directory that
\* exists holds the file x.go; a "nested" one also holds a directory (named
\* vendor under pkg, sub elsewhere) with the file y.go. The root holds
\* main.go.
WalkDirNames == {".git", "lib", "node_modules", "pkg", "testdata", "vendor", "workspace"}
DirShapes == {"absent", "flat", "nested"}
ChildDirName(d) == IF d = "pkg" THEN "vendor" ELSE "sub"

\* byte order of the names met in the walk, and their first byte
WalkNameRank ==
  ( ".git" :> 1 @@ "lib" :> 2 @@ "main.go" :> 3 @@ "node_modules" :> 4 @@ "pkg" :> 5 @@
    "sub" :> 6 @@ "testdata" :> 7 @@ "vendor" :> 8 @@ "workspace" :> 9 @@
    "x.go" :> 10 @@ "y.go" :> 11 )
FirstByte ==
  ( ".git" :> "." @@ "lib" :> "l" @@ "main.go" :> "m" @@ "node_modules" :> "n" @@
    "pkg" :> "p" @@ "sub" :> "s" @@ "testdata" :> "t" @@ "vendor" :> "v" @@
    "workspace" :> "w" @@ "x.go" :> "x" @@ "y.go" :> "y" )

\* variant: node_modules is excluded as well
isExcludedDir_WithNodeModules(name) ==
  \/ FirstByte[name] = "."
  \/ name \in {"vendor", "testdata", "workspace", "node_modules"}
isExcludedDir(name) ==
  FirstByte[name] = "." \/ name = "vendor" \/ name = "testdata" \/ name = "workspace"

\* a node of the tree: a path as a sequence of names below the root
WalkNode(path, isDir) == [path |-> path, isDir |-> isDir]
WalkRoot == WalkNode(<<>>, TRUE)
NodeName(n) == n.path[Len(n.path)]
\* the entries os.ReadDir lists for a directory of the tree
DirEntries(t, n) ==
  IF Len(n.path) = 0
    THEN {WalkNode(<<d>>, TRUE) : d \in {x \in WalkDirNames : t[x] # "absent"}}
         \cup {WalkNode(<<"main.go">>, FALSE)}
  ELSE IF Len(n.path) = 1
    THEN {WalkNode(<<n.path[1], "x.go">>, FALSE)}
         \cup (IF t[n.path[1]] = "nested"
                 THEN {WalkNode(<<n.path[1], ChildDirName(n.path[1])>>, TRUE)} ELSE {})
  ELSE {WalkNode(n.path \o <<"y.go">>, FALSE)}
RECURSIVE SortedEntries(_)
SortedEntries(S) ==
  IF S = {} THEN <<>>
  ELSE LET m == CHOOSE x \in S : \A y \in S : WalkNameRank[NodeName(x)] <= WalkNameRank[NodeName(y)]
       IN <<m>> \o SortedEntries(S \ {m})

NoWalk ==
  [op |-> "none", RootEntries |-> <<>>, Dirs |-> <<>>, Files |-> <<>>, visited |-> {}]

\* the callback BuildFileIndexWithLanguages hands to filepath.WalkDir:
\* the index afterwards and whether the directory is skipped
walkCallback(n, acc) ==
  LET seen == [acc EXCEPT !.visited = @ \cup {n.path}]
      rooted == IF Len(n.path) = 1
                  THEN [seen EXCEPT !.RootEntries = Append(@, NodeName(n))]
                  ELSE seen
  IN IF n.isDir
       THEN IF Len(n.path) > 0 /\ isExcludedDir(NodeName(n))
              THEN [idx |-> rooted, skip |-> TRUE]
            ELSE [idx |-> [rooted EXCEPT !.Dirs = Append(@, n.path)], skip |-> FALSE]
     ELSE [idx |-> [rooted EXCEPT !.Files = Append(@, n.path)], skip |-> FALSE]

\* filepath.WalkDir: the callback on the node, then on its entries in
\* lexical order unless the callback asked to skip the directory
RECURSIVE walkDir(_, _, _)
RECURSIVE walkEntries(_, _, _, _)
walkDir(t, n, acc) ==
  LET after(cb) ==
        IF n.isDir /\ ~cb.skip
          THEN walkEntries(t, SortedEntries(DirEntries(t, n)), 1, cb.idx)
          ELSE cb.idx
  IN after(walkCallback(n, acc))
walkEntries(t, entries, k, acc) ==
  IF k > Len(entries) THEN acc
  ELSE walkEntries(t, entries, k + 1, walkDir(t, entries[k], acc))

WalkNamedTree(t) ==
  LET sorted(idx) ==
        [idx EXCEPT !.RootEntries =
                      SortSeq(@, LAMBDA x, y : WalkNameRank[x] < WalkNameRank[y])]
  IN sorted(walkDir(t, WalkRoot, [NoWalk EXCEPT !.op = "BuildFileIndex"]))

(* ------------------------------- initial ------------------------------- *)
EmptyHashCache == [out |-> NotCached(NoHash), paths |-> NotCached(NoHash)]
\* wr: the cache file being written (target), the file at the cache path
\* before the write (prev) and the file the write installs (next); req is
\* the state last passed to writeState in this process, live says that the
\* write was not cut short, at is the place of the last crash
NoWrite ==
  [target |-> "none", prev |-> AbsentFile(NilState), next |-> AbsentFile(NilState),
   req |-> NilState, live |-> FALSE, at |-> "none"]

InitTree ==
  /\ dirA \in {NoDir, DirOfTime(0)}
  /\ fs \in [TrackedPaths -> {NoFile} \cup {FileOf(c, 0) : c \in {1}}]
  /\ \A p \in TrackedPaths : fs[p].exists /\ InSubdir(p) => dirA.exists
  /\ denied = {}

InitProcess ==
  /\ clock = 0
  /\ stateDisk = AbsentFile(NilState) /\ stateTmp = AbsentFile(NilState)
  /\ stateFileCache = NotCached(NilState) /\ stateLastFlush = NoFlush
  /\ analysisDisk = AbsentFile(NilAnalysis) /\ analysisTmp = AbsentFile(NilAnalysis)
  /\ analysisFileCache = NotCached(NilAnalysis) /\ analysisLastFlush = NoFlush
  /\ outDisk = NoOutput /\ pathsDisk = NoOutput
  /\ hashFileCache = EmptyHashCache
  /\ res = NoResult /\ nRuns = 0 /\ nFs = 0 /\ quiet = FALSE
  /\ pc = "idle" /\ wr = NoWrite

InitEngine ==
  /\ registry = NewAnalyzerRegistry
  /\ engine = NoEngineRun

InitWalk ==
  /\ wtree = [d \in WalkDirNames |-> "absent"]
  /\ walkRes = NoWalk

\* the call: kind, n jobs, GOMAXPROCS, the worker count, the jobs whose body
\* returns an error, the position of the calling goroutine (mpc), the next
\* job of the dispatch loop (or of the single-worker loop), whether the
\* dispatch loop still runs, results collected, the value returned and the
\* job whose error it is
NoPoolCall ==
  [kind |-> "none", n |-> 0, procs |-> 0, workers |-> 0, fails |-> {},
   mpc |-> "idle", next |-> 1, dispatching |-> FALSE, collected |-> 0,
   ret |-> "none", retErr |-> 0]

\* record of the run: jobs handed to a worker, jobs whose body began and
\* ended, the hash job that failed first, whether a job ended before one
\* that was begun ahead of it in job order, the slots written, and whether a
\* job handed over had not ended when the call returned
NoPoolTrace ==
  [handed |-> {}, started |-> {}, finished |-> {}, firstFailed |-> 0,
   overtaken |-> FALSE, written |-> {}, openAtReturn |-> FALSE]

InitPool ==
  /\ pcall = NoPoolCall /\ ctxDone = FALSE /\ jobsClosed = FALSE
  /\ resultsCh = <<>> /\ errCh = <<>> /\ workersSt = <<>> /\ poolOut = <<>>
  /\ ptrace = NoPoolTrace

\* the run: its position, what it read at its start (state, index), what
\* it computed (next state, hash, analysis, result), whether the tree was
\* changed while it ran and after it ended, and how the last run ended
NoRun ==
  [phase |-> "idle", state |-> NilState, idx |-> BuildFileIndex(EmptyTree),
   next |-> NilState, hash |-> NoHash, analysis |-> NilAnalysis, out |-> NoResult,
   modified |-> FALSE, after |-> FALSE, last |-> "none"]

InitRun == rc = NoRun

\* the processes that write the same state path
Writers == {1, 2}
\* a process: its place in writeState, its stateLastFlush entry, the state it
\* writes, where the file it holds open is by now, whether the bytes of that
\* file are its own alone, and what its last call returned
IdleWriter ==
  [pc |-> "idle", last |-> NoFlush, req |-> NilState, fd |-> "none", clean |-> TRUE,
   ret |-> "none"]
InitWriters == writers = [w \in Writers |-> IdleWriter]

\* the languages with a built-in analyser
BuiltinLanguages == {languageGo, languageRust, languageTypeScript}
\* a tree of several languages: which languages have a unit, the content
\* hash of each unit's file, the analysis cache as persisted, and the
\* languages the last run executed and reused the cached unit of
NoLangRun ==
  [present |-> {}, ver |-> [l \in BuiltinLanguages |-> 1], cache |-> NilAnalysis,
   executed |-> <<>>, reused |-> {}, runs |-> 0, edits |-> 0]
InitLanguages == lrun = NoLangRun

\* the planning: the paths of the index, its order, the content hash each
\* path has in the state (NoContentHash: none), and the plans built
PlanPaths == {"a.go", "a/b.go", "a/c.go"}
\* entriesByRel has no entry for the path
NoStateEntry == -1
PlanHashes == {NoStateEntry, NoContentHash, 11, 12}
NoPlanRun ==
  [members |-> {}, order |-> "walk", hashes |-> [p \in PlanPaths |-> NoContentHash],
   planned |-> FALSE, plans |-> <<>>]
InitPlanning == fprun = NoPlanRun

Init == InitTree /\ InitProcess /\ InitEngine /\ InitWalk /\ InitPool /\ InitRun
        /\ InitWriters /\ InitLanguages /\ InitPlanning

(* ----------------------------- environment ----------------------------- *)
EnvStep ==
  /\ nFs < MaxFsOps /\ nFs' = nFs + 1 /\ quiet' = FALSE
  /\ UNCHANGED <<clock, res, nRuns, writeVars, engineVars, walkVars, runVars, writerVars, unitVars, poolVars>>

TreeStep ==
  /\ EnvStep
  /\ UNCHANGED <<denied, stateFileVars, analysisFileVars, outputVars>>

\* time passes
Tick ==
  /\ clock < MaxTicks * TickMs
  /\ clock' = clock + TickMs
  /\ UNCHANGED <<treeVars, stateFileVars, analysisFileVars, outputVars,
                 res, nRuns, nFs, quiet, writeVars, engineVars, walkVars, runVars, writerVars, unitVars, poolVars>>

\* an existing file gets other bytes; its modification time is the clock's
WriteFile(p, c) ==
  /\ fs[p].exists /\ fs[p].c # c
  /\ fs' = [fs EXCEPT ![p] = FileOf(c, clock)]
  /\ UNCHANGED dirA
  /\ TreeStep

\* only the modification time of a file changes
Touch(p) ==
  /\ fs[p].exists /\ fs[p].m # clock
  /\ fs' = [fs EXCEPT ![p] = FileOf(fs[p].c, clock)]
  /\ UNCHANGED dirA
  /\ TreeStep

\* a new file; creating an entry updates the directory's modification time
AddFile(p) ==
  /\ ~fs[p].exists
  /\ InSubdir(p) => dirA.exists
  /\ fs' = [fs EXCEPT ![p] = FileOf(1, clock)]
  /\ dirA' = IF InSubdir(p) THEN DirOfTime(clock) ELSE dirA
  /\ TreeStep

DeleteFile(p) ==
  /\ fs[p].exists
  /\ fs' = [fs EXCEPT ![p] = NoFile]
  /\ dirA' = IF InSubdir(p) THEN DirOfTime(clock) ELSE dirA
  /\ TreeStep

MkDir ==
  /\ ~dirA.exists
  /\ dirA' = DirOfTime(clock)
  /\ UNCHANGED fs
  /\ TreeStep

RmDir ==
  /\ dirA.exists /\ \A p \in TrackedPaths : InSubdir(p) => ~fs[p].exists
  /\ dirA' = NoDir
  /\ UNCHANGED fs
  /\ TreeStep

\* read permission is taken from, or given back to, files and the
\* subdirectory; lstat of the paths keeps working
Chmod(U) ==
  /\ U # denied
  /\ \A n \in U : IF n = "a" THEN dirA.exists ELSE fs[n].exists
  /\ denied' = U
  /\ quiet' = FALSE
  /\ UNCHANGED <<fs, dirA, clock, stateFileVars, analysisFileVars, outputVars,
                 res, nRuns, nFs, writeVars, engineVars, walkVars, runVars, writerVars, unitVars, poolVars>>

\* the process exits and a new one starts: the process-wide maps are empty
Restart ==
  /\ pc = "idle"
  /\ \/ stateFileCache.cached \/ analysisFileCache.cached
     \/ hashFileCache # EmptyHashCache
     \/ stateLastFlush # NoFlush \/ analysisLastFlush # NoFlush
  /\ stateFileCache' = NotCached(NilState) /\ stateLastFlush' = NoFlush
  /\ analysisFileCache' = NotCached(NilAnalysis) /\ analysisLastFlush' = NoFlush
  /\ hashFileCache' = EmptyHashCache
  /\ UNCHANGED <<treeVars, clock, stateDisk, stateTmp, analysisDisk, analysisTmp,
                 outDisk, pathsDisk, res, nRuns, nFs, quiet, writeVars, engineVars, walkVars, runVars, writerVars, unitVars, poolVars>>

\* between two processes a cache file is damaged or replaced by a file of
\* an older format version
OlderVersion(file) ==
  IF file.kind = "ok" THEN CompleteFile([file.data EXCEPT !.Version = @ - 1]) ELSE file

Damaged(file, kind, nil) ==
  IF kind = "corrupt" THEN CorruptFile(nil) ELSE OlderVersion(file)

Tamper(kind, target) ==
  /\ pc = "idle"
  /\ ~stateFileCache.cached /\ ~analysisFileCache.cached
  /\ stateLastFlush = NoFlush /\ analysisLastFlush = NoFlush
  /\ IF target = "state"
       THEN /\ stateDisk.kind = "ok" /\ stateDisk.data.Version = codemapStateVersion
            /\ stateDisk' = Damaged(stateDisk, kind, NilState)
            /\ UNCHANGED analysisDisk
       ELSE /\ analysisDisk.kind = "ok" /\ analysisDisk.data.Version = analysisCacheVersionV2
            /\ analysisDisk' = Damaged(analysisDisk, kind, NilAnalysis)
            /\ UNCHANGED stateDisk
  /\ quiet' = FALSE
  /\ UNCHANGED <<treeVars, clock, stateTmp, stateFileCache, stateLastFlush,
                 analysisTmp, analysisFileCache, analysisLastFlush, outputVars,
                 res, nRuns, nFs, writeVars, engineVars, walkVars, runVars, writerVars, unitVars, poolVars>>

\* between two processes the analysis cache is replaced by the one a run
\* with another scoping option wrote for the same files
OtherScope(field) ==
  /\ pc = "idle"
  /\ ~stateFileCache.cached /\ ~analysisFileCache.cached
  /\ stateLastFlush = NoFlush /\ analysisLastFlush = NoFlush
  /\ analysisDisk.kind = "ok" /\ analysisDisk.data.Version = analysisCacheVersionV2
  /\ analysisDisk.data.IncludeTests = OptsIncludeTests
  /\ analysisDisk.data.LargePackageFiles = OptsLargePackageFiles
  /\ analysisDisk.data.ModulePath = ModulePathOfTree
  /\ analysisDisk' =
       CompleteFile(
         IF field = "includeTests" THEN [analysisDisk.data EXCEPT !.IncludeTests = ~@]
         ELSE IF field = "largePackageFiles"
           THEN [analysisDisk.data EXCEPT !.LargePackageFiles = @ + 1]
         ELSE [analysisDisk.data EXCEPT !.ModulePath = OtherModulePath])
  /\ quiet' = FALSE
  /\ UNCHANGED <<treeVars, clock, stateDisk, stateTmp, stateFileCache, stateLastFlush,
                 analysisTmp, analysisFileCache, analysisLastFlush, outputVars,
                 res, nRuns, nFs, writeVars, engineVars, walkVars, runVars, writerVars, unitVars, poolVars>>

(* ------------------------------ operations ----------------------------- *)
IsStaleOp(cancelAt) ==
  LET returns(r) == /\ res' = r.out
                    /\ hashFileCache' = r.hfc
                    /\ stateFileCache' = r.sfc
  IN /\ pc = "idle" /\ nRuns < MaxRuns
     /\ returns(IsStale(cancelAt))
     /\ nRuns' = nRuns + 1
     /\ UNCHANGED <<treeVars, clock, stateDisk, stateTmp, stateLastFlush, analysisFileVars,
                    outDisk, pathsDisk, nFs, quiet, writeVars, engineVars, walkVars, runVars, writerVars, unitVars, poolVars>>

EnsureUpToDateOp(procs, cancelAt, seen) ==
  LET returns(r) ==
        /\ res' = r.out
        /\ hashFileCache' = r.hfc
        /\ stateFileCache' = r.sfc /\ stateLastFlush' = r.slf /\ stateDisk' = r.sd
        /\ analysisFileCache' = r.afc /\ analysisLastFlush' = r.alf /\ analysisDisk' = r.ad
        /\ outDisk' = r.od /\ pathsDisk' = r.pd
        /\ quiet' = IF r.out.status = "ok" THEN TRUE ELSE quiet
  IN /\ pc = "idle" /\ nRuns < MaxRuns
     /\ returns(EnsureUpToDate(procs, cancelAt, seen))
     /\ nRuns' = nRuns + 1
     /\ UNCHANGED <<treeVars, clock, stateTmp, analysisTmp, nFs, writeVars, engineVars, walkVars, runVars, writerVars, unitVars, poolVars>>

Next ==
  \/ Tick
  \/ \E p \in TrackedPaths, c \in Contents : WriteFile(p, c)
  \/ \E p \in TrackedPaths : Touch(p)
  \/ \E p \in TrackedPaths : AddFile(p)
  \/ \E p \in TrackedPaths : DeleteFile(p)
  \/ MkDir
  \/ RmDir
  \/ Restart
  \/ IsStaleOp(NeverCancelled)
  \/ EnsureUpToDateOp(MaxProcs, NeverCancelled, FALSE)

Spec == Init /\ [][Next]_vars

\* runs over cache files that were damaged between two processes
NextTamper ==
  \/ \E p \in TrackedPaths, c \in Contents : WriteFile(p, c)
  \/ \E p \in TrackedPaths : AddFile(p)
  \/ \E p \in TrackedPaths : DeleteFile(p)
  \/ Restart
  \/ \E kind \in {"corrupt", "version"}, target \in {"state", "analysis"} : Tamper(kind, target)
  \/ IsStaleOp(NeverCancelled)
  \/ EnsureUpToDateOp(MaxProcs, NeverCancelled, FALSE)

SpecTamper == Init /\ [][NextTamper]_vars

\* runs over an analysis cache written under other scoping options
NextScope ==
  \/ \E p \in TrackedPaths, c \in Contents : WriteFile(p, c)
  \/ \E p \in TrackedPaths : AddFile(p)
  \/ \E p \in TrackedPaths : DeleteFile(p)
  \/ Restart
  \/ \E field \in {"includeTests", "largePackageFiles", "modulePath"} : OtherScope(field)
  \/ \E kind \in {"version"} : Tamper(kind, "analysis")
  \/ IsStaleOp(NeverCancelled)
  \/ EnsureUpToDateOp(MaxProcs, NeverCancelled, FALSE)

SpecScope == Init /\ [][NextScope]_vars

\* runs over trees with unreadable files and directories
NextDenied ==
  \/ \E p \in TrackedPaths, c \in Contents : WriteFile(p, c)
  \/ \E p \in TrackedPaths : AddFile(p)
  \/ \E p \in TrackedPaths : DeleteFile(p)
  \/ \E U \in SUBSET (TrackedPaths \cup {"a"}) : Chmod(U)
  \/ Restart
  \/ IsStaleOp(NeverCancelled)
  \/ \E procs \in {1, MaxProcs} : EnsureUpToDateOp(procs, NeverCancelled, FALSE)

SpecDenied == Init /\ [][NextDenied]_vars

\* runs whose context becomes done at some place of the operation
NextCancel ==
  \/ \E p \in TrackedPaths, c \in Contents : WriteFile(p, c)
  \/ \E p \in TrackedPaths : AddFile(p)
  \/ \E p \in TrackedPaths : DeleteFile(p)
  \/ Restart
  \/ \E cancelAt \in CancelPoints : nRuns < MaxCancelRuns /\ IsStaleOp(cancelAt)
  \/ \E procs \in {1, MaxProcs}, cancelAt \in CancelPoints, seen \in BOOLEAN :
        nRuns < MaxCancelRuns /\ EnsureUpToDateOp(procs, cancelAt, seen)

SpecCancel == Init /\ [][NextCancel]_vars

(* ------------------------ a cache write, stepwise ---------------------- *)
\* the states and analysis caches handed to the writers: those computed for
\* a tree that holds a.go with content c
WriteTree(c) ==
  TreeOf([p \in TrackedPaths |-> IF p = "a.go" THEN FileOf(c, 0) ELSE NoFile], NoDir,
         AbsentFile(NilState), AbsentFile(NilState), AbsentFile(NilAnalysis),
         AbsentFile(NilAnalysis), NoOutput, NoOutput)
StateFor(c) ==
  computeAggregateHash(BuildFileIndex(WriteTree(c)), NilState, WriteTree(c), 1, FALSE, FALSE).next
AnalysisFor(c) ==
  analyzeGoWithIndex(WriteTree(c), BuildFileIndex(WriteTree(c)), NilState, NilAnalysis,
                     StateFor(c), 1, FALSE, FALSE).analysis
StateData == {StateFor(c) : c \in {1, 2}}
AnalysisData == {AnalysisFor(c) : c \in {1, 2}} \cup {NilAnalysis}

WriteFrame == UNCHANGED <<treeVars, outputVars, quiet, engineVars, walkVars, runVars, writerVars, unitVars, poolVars>>
Called(op) == res' = [NoResult EXCEPT !.op = op] /\ nRuns' = nRuns + 1

TickW ==
  /\ clock < MaxWriteTicks * TickMs
  /\ clock' = clock + TickMs
  /\ UNCHANGED <<treeVars, stateFileVars, analysisFileVars, outputVars,
                 res, nRuns, nFs, quiet, writeVars, engineVars, walkVars, runVars, writerVars, unitVars, poolVars>>

\* writeState up to the debounce decision
WriteStateCall(state) ==
  LET decided(d) ==
        /\ stateFileCache' = d.mem /\ stateLastFlush' = d.last
        /\ IF d.flush
             THEN /\ pc' = "marshalled"
                  /\ wr' = [wr EXCEPT !.target = "state", !.prev = stateDisk,
                                      !.next = CompleteFile(state), !.req = state,
                                      !.live = TRUE]
             ELSE /\ pc' = "idle"
                  /\ wr' = [wr EXCEPT !.req = state]
  IN /\ pc = "idle" /\ nRuns < MaxWrites
     /\ decided(writeStateDecision(stateFileCache, stateLastFlush, state, clock))
     /\ Called("writeState")
     /\ UNCHANGED <<stateDisk, stateTmp, analysisFileVars, clock, nFs>>
     /\ WriteFrame

\* writeAnalysisCache up to the debounce decision; an empty cache removes
\* the file at once
WriteAnalysisCall(cache) ==
  LET decided(w) ==
        /\ analysisFileCache' = w.mem /\ analysisLastFlush' = w.last
        /\ IF w.flushed
             THEN /\ pc' = "marshalled"
                  /\ wr' = [wr EXCEPT !.target = "analysis", !.prev = analysisDisk,
                                      !.next = CompleteFile(cache), !.live = TRUE]
                  /\ UNCHANGED analysisDisk
             ELSE /\ pc' = "idle"
                  /\ analysisDisk' = w.disk
                  /\ wr' = IF w.disk = analysisDisk THEN wr
                           ELSE [wr EXCEPT !.target = "analysis", !.prev = analysisDisk,
                                           !.next = w.disk, !.live = TRUE]
  IN /\ pc = "idle" /\ nRuns < MaxWrites
     /\ decided(writeAnalysisCache(analysisFileCache, analysisLastFlush, analysisDisk,
                                   cache, clock))
     /\ Called("writeAnalysisCache")
     /\ UNCHANGED <<analysisTmp, stateFileVars, clock, nFs>>
     /\ WriteFrame

\* variant: the data is written to the cache path itself
WriteTmpFile_InPlace ==
  /\ pc = "marshalled" /\ pc' = "writing"
  /\ IF wr.target = "state"
       THEN stateDisk' = PartialFile(wr.next.data) /\ UNCHANGED analysisDisk
       ELSE analysisDisk' = PartialFile(wr.next.data) /\ UNCHANGED stateDisk
  /\ UNCHANGED <<stateTmp, stateFileCache, stateLastFlush, analysisTmp,
                 analysisFileCache, analysisLastFlush, clock, res, nRuns, nFs, wr>>
  /\ WriteFrame
\* os.WriteFile(tmpPath, data): the file is created or truncated and filled
WriteTmpFile ==
  /\ pc = "marshalled" /\ pc' = "writing"
  /\ IF wr.target = "state"
       THEN stateTmp' = PartialFile(wr.next.data) /\ UNCHANGED analysisTmp
       ELSE analysisTmp' = PartialFile(wr.next.data) /\ UNCHANGED stateTmp
  /\ UNCHANGED <<stateDisk, stateFileCache, stateLastFlush, analysisDisk,
                 analysisFileCache, analysisLastFlush, clock, res, nRuns, nFs, wr>>
  /\ WriteFrame

WriteTmpFileDone ==
  /\ pc = "writing" /\ pc' = "written"
  /\ IF wr.target = "state"
       THEN stateTmp' = wr.next /\ UNCHANGED analysisTmp
       ELSE analysisTmp' = wr.next /\ UNCHANGED stateTmp
  /\ UNCHANGED <<stateDisk, stateFileCache, stateLastFlush, analysisDisk,
                 analysisFileCache, analysisLastFlush, clock, res, nRuns, nFs, wr>>
  /\ WriteFrame

\* os.Rename(tmpPath, path)
RenameTmp ==
  /\ pc = "written" /\ pc' = "idle"
  /\ IF wr.target = "state"
       THEN /\ stateDisk' = stateTmp /\ stateTmp' = AbsentFile(NilState)
            /\ UNCHANGED <<analysisDisk, analysisTmp>>
       ELSE /\ analysisDisk' = analysisTmp /\ analysisTmp' = AbsentFile(NilAnalysis)
            /\ UNCHANGED <<stateDisk, stateTmp>>
  /\ UNCHANGED <<stateFileCache, stateLastFlush, analysisFileCache, analysisLastFlush,
                 clock, res, nRuns, nFs, wr>>
  /\ WriteFrame

\* the process dies at any place of a write; the files stay as they are
Crash ==
  /\ nFs < MaxCrashes /\ nFs' = nFs + 1
  /\ pc' = "idle"
  /\ wr' = [wr EXCEPT !.req = NilState, !.live = FALSE, !.at = pc]
  /\ stateFileCache' = NotCached(NilState) /\ stateLastFlush' = NoFlush
  /\ analysisFileCache' = NotCached(NilAnalysis) /\ analysisLastFlush' = NoFlush
  /\ UNCHANGED <<stateDisk, stateTmp, analysisDisk, analysisTmp, clock, res, nRuns>>
  /\ WriteFrame

ReadStateCall ==
  LET returned(r) == stateFileCache' = r.mem
  IN /\ pc = "idle" /\ res.op # "readState"
     /\ returned(readState(stateFileCache, stateDisk))
     /\ res' = [NoResult EXCEPT !.op = "readState"]
     /\ UNCHANGED <<stateDisk, stateTmp, stateLastFlush, analysisFileVars, clock,
                    nRuns, nFs, writeVars, engineVars, walkVars, runVars, writerVars, unitVars, poolVars>>
     /\ WriteFrame

NextWrite ==
  \/ TickW
  \/ \E state \in StateData : WriteStateCall(state)
  \/ \E cache \in AnalysisData : WriteAnalysisCall(cache)
  \/ WriteTmpFile
  \/ WriteTmpFileDone
  \/ RenameTmp
  \/ Crash
  \/ ReadStateCall

SpecWrite == Init /\ [][NextWrite]_vars

(* --------------------------- registry dispatch -------------------------- *)
programVars ==
  <<treeVars, clock, stateFileVars, analysisFileVars, outputVars,
    res, nRuns, nFs, quiet, writeVars>>

SnapshotLanguages ==
  {NoLanguage, languageCustom, languageGo, languageOther, languageRust, languageTypeScript}
\* the indexes handed to AnalyzeWithRegistry: nil, or up to MaxIndexFiles files
LangIndexes ==
  {NilLangIndex} \cup
  UNION {{LangIndexOf(langs) : langs \in [1..n -> SnapshotLanguages]} : n \in 0..MaxIndexFiles}

\* the registry is set up before it is used
Register(id, kind) ==
  /\ engine.op = "none"
  /\ registry.analyzers[id] # kind
  /\ registry' = RegistryRegister(registry, id, kind)
  /\ UNCHANGED <<engine, programVars, walkVars, runVars, writerVars, unitVars, poolVars>>

AnalyzeWithRegistryOp(idx, useDefault) ==
  /\ engine.op = "none"
  /\ engine' = AnalyzeWithRegistry(idx, IF useDefault THEN NilRegistry ELSE registry)
  /\ UNCHANGED <<registry, programVars, walkVars, runVars, writerVars, unitVars, poolVars>>

NextRegistry ==
  \/ \E id \in RegistrableLanguages, kind \in AnalyzerKinds : Register(id, kind)
  \/ \E idx \in LangIndexes, useDefault \in BOOLEAN : AnalyzeWithRegistryOp(idx, useDefault)

\* the registry is exercised next to one tree
InitRegistry == Init /\ dirA.exists /\ \A p \in TrackedPaths : fs[p].exists
SpecRegistry == InitRegistry /\ [][NextRegistry]_vars

(* ------------------------- walk of named dirs -------------------------- *)
\* the tree is laid out before it is walked
MakeDir(d, shape) ==
  /\ walkRes.op = "none"
  /\ wtree[d] = "absent" /\ shape # "absent"
  /\ Cardinality({x \in WalkDirNames : wtree[x] # "absent"}) < MaxWalkDirs
  /\ wtree' = [wtree EXCEPT ![d] = shape]
  /\ UNCHANGED <<walkRes, programVars, engineVars, poolVars, runVars, writerVars, unitVars>>

BuildFileIndexOp ==
  /\ walkRes.op = "none"
  /\ walkRes' = WalkNamedTree(wtree)
  /\ UNCHANGED <<wtree, programVars, engineVars, poolVars, runVars, writerVars, unitVars>>

NextWalk ==
  \/ \E d \in WalkDirNames, shape \in DirShapes : MakeDir(d, shape)
  \/ BuildFileIndexOp

SpecWalk == InitRegistry /\ [][NextWalk]_vars

(* ------------------------------ worker pools ---------------------------- *)
\* hashMissingEntries ("hash") and analyzePackagesParallel ("analysis")
PoolKinds == {"hash", "analysis"}
\* job j carries the index of the output slot it fills; the slots between
\* belong to entries that need no job
JobIndex(j) == 2 * j
Slots(n) == 1..(2 * n + 1)
\* what job j produces (a content hash, a package)
ResultOf(j) == 10 + j

IdleWorker == [pc |-> "recv", job |-> 0]

\* the calling goroutine returns
PoolReturn(call, status, errJob) ==
  [call EXCEPT !.mpc = "returned", !.ret = status, !.retErr = errJob]
TraceAtReturn(tr) == [tr EXCEPT !.openAtReturn = tr.handed \ tr.finished # {}]

\* a job body begins
TraceStart(tr, j) == [tr EXCEPT !.started = @ \cup {j}]
\* a job body ends; hashFailed: it is a hash job and it failed
TraceFinish(tr, j, hashFailed) ==
  [tr EXCEPT !.finished = @ \cup {j},
             !.firstFailed = IF hashFailed /\ @ = 0 THEN j ELSE @,
             !.overtaken = @ \/ \E i \in tr.started \ tr.finished : i < j]

\* variant: the k-th result received goes to the slot of job k
RECURSIVE storeResults_ArrivalOrder(_, _)
storeResults_ArrivalOrder(o, rs) ==
  IF rs = <<>> THEN o
  ELSE [storeResults_ArrivalOrder(o, SubSeq(rs, 1, Len(rs) - 1))
          EXCEPT ![JobIndex(Len(rs))] = rs[Len(rs)].value]

\* results drained from resultsCh into the output, in channel order
RECURSIVE storeResults(_, _)
storeResults(o, rs) ==
  IF rs = <<>> THEN o
  ELSE storeResults([o EXCEPT ![Head(rs).index] = Head(rs).value], Tail(rs))

AllWorkersDone == \A w \in DOMAIN workersSt : workersSt[w].pc = "done"

\* the call is made: no job, one worker (a loop in the calling goroutine) or
\* a pool of workers with a dispatch loop
StartPool(kind, n, procs, fails) ==
  /\ pcall.mpc = "idle"
  /\ LET w == workerCount(procs, n)
         call == [NoPoolCall EXCEPT !.kind = kind, !.n = n, !.procs = procs,
                                    !.workers = w, !.fails = fails]
     IN /\ pcall' =
             IF n = 0 THEN PoolReturn(call, "ok", 0)
             ELSE IF w = 1 THEN [call EXCEPT !.mpc = "seq"]
             ELSE [call EXCEPT !.dispatching = TRUE,
                               !.mpc = IF kind = "hash" THEN "dispatch" ELSE "collect"]
        /\ workersSt' = IF n = 0 \/ w = 1 THEN <<>> ELSE [i \in 1..w |-> IdleWorker]
        /\ poolOut' = [s \in Slots(n) |-> 0]
  /\ UNCHANGED <<ctxDone, jobsClosed, resultsCh, errCh, ptrace, programVars, engineVars, walkVars, runVars, writerVars, unitVars>>

\* the caller's context is cancelled while the call runs
ParentCancel ==
  /\ pcall.mpc \notin {"idle", "returned"}
  /\ ~ctxDone
  /\ ctxDone' = TRUE
  /\ UNCHANGED <<pcall, jobsClosed, resultsCh, errCh, workersSt, poolOut, ptrace, programVars, engineVars, walkVars, runVars, writerVars, unitVars>>

\* single worker: the loop takes up its next job; only the analysis loop
\* looks at the context first
SeqBegin ==
  /\ pcall.mpc = "seq"
  /\ IF pcall.kind = "analysis" /\ ctxDone
       THEN /\ pcall' = PoolReturn(pcall, "cancelled", 0)
            /\ ptrace' = TraceAtReturn(ptrace)
       ELSE /\ pcall' = [pcall EXCEPT !.mpc = "seqRun"]
            /\ ptrace' = TraceStart([ptrace EXCEPT !.handed = @ \cup {pcall.next}],
                                    pcall.next)
  /\ UNCHANGED <<ctxDone, jobsClosed, resultsCh, errCh, workersSt, poolOut, programVars, engineVars, walkVars, runVars, writerVars, unitVars>>

\* single worker: the job ends; a failed hash ends the call, a failed
\* analysis is skipped
SeqFinish ==
  /\ pcall.mpc = "seqRun"
  /\ LET j == pcall.next
         failed == j \in pcall.fails
         tr == TraceFinish(ptrace, j, failed /\ pcall.kind = "hash")
     IN IF failed /\ pcall.kind = "hash"
          THEN /\ pcall' = PoolReturn(pcall, "error", j)
               /\ ptrace' = TraceAtReturn(tr)
               /\ poolOut' = poolOut
          ELSE /\ poolOut' = IF failed THEN poolOut ELSE [poolOut EXCEPT ![JobIndex(j)] = ResultOf(j)]
               /\ pcall' = IF j = pcall.n THEN PoolReturn(pcall, "ok", 0)
                           ELSE [pcall EXCEPT !.mpc = "seq", !.next = j + 1]
               /\ ptrace' =
                    LET tw == [tr EXCEPT !.written = IF failed THEN @ ELSE @ \cup {JobIndex(j)}]
                    IN IF j = pcall.n THEN TraceAtReturn(tw) ELSE tw
  /\ UNCHANGED <<ctxDone, jobsClosed, resultsCh, errCh, workersSt, programVars, engineVars, walkVars, runVars, writerVars, unitVars>>

\* the dispatch loop hands its next job to a worker waiting on jobsCh; the
\* select may take this case also when the context is done.  The workers
\* run the same code and differ in nothing but their number, so the job
\* goes to the waiting worker with the least number
Dispatch(w) ==
  /\ pcall.dispatching /\ pcall.next <= pcall.n
  /\ w \in DOMAIN workersSt /\ workersSt[w].pc = "recv"
  /\ \A v \in 1..(w - 1) : workersSt[v].pc # "recv"
  /\ workersSt' = [workersSt EXCEPT ![w] = [pc |-> "take", job |-> pcall.next]]
  /\ pcall' = [pcall EXCEPT !.next = @ + 1]
  /\ ptrace' = [ptrace EXCEPT !.handed = @ \cup {pcall.next}]
  /\ UNCHANGED <<ctxDone, jobsClosed, resultsCh, errCh, poolOut, programVars, engineVars, walkVars, runVars, writerVars, unitVars>>

\* the dispatch loop ends, after the last job or because the context is
\* done, and jobsCh is closed
DispatchEnd ==
  /\ pcall.dispatching
  /\ pcall.next > pcall.n \/ ctxDone
  /\ pcall' = [pcall EXCEPT !.dispatching = FALSE,
                            !.mpc = IF pcall.kind = "hash" THEN "wait" ELSE @]
  /\ jobsClosed' = TRUE
  /\ UNCHANGED <<ctxDone, resultsCh, errCh, workersSt, poolOut, ptrace, programVars, engineVars, walkVars, runVars, writerVars, unitVars>>

\* a worker finds jobsCh closed
WorkerClosed(w) ==
  /\ w \in DOMAIN workersSt /\ workersSt[w].pc = "recv"
  /\ jobsClosed
  /\ workersSt' = [workersSt EXCEPT ![w].pc = "done"]
  /\ UNCHANGED <<pcall, ctxDone, jobsClosed, resultsCh, errCh, poolOut, ptrace, programVars, engineVars, walkVars, runVars, writerVars, unitVars>>

\* variant: no worker looks at the context before a job
WorkerTake_NoCheck(w) ==
  /\ w \in DOMAIN workersSt /\ workersSt[w].pc = "take"
  /\ workersSt' = [workersSt EXCEPT ![w].pc = "run"]
  /\ ptrace' = TraceStart(ptrace, workersSt[w].job)
  /\ UNCHANGED <<pcall, ctxDone, jobsClosed, resultsCh, errCh, poolOut, programVars, engineVars, walkVars, runVars, writerVars, unitVars>>

\* a worker takes up the job it received: the hash worker looks at the
\* context first, the analysis worker does not
WorkerTake(w) ==
  /\ w \in DOMAIN workersSt /\ workersSt[w].pc = "take"
  /\ IF pcall.kind = "hash" /\ ctxDone
       THEN /\ workersSt' = [workersSt EXCEPT ![w].pc = "done"]
            /\ ptrace' = ptrace
       ELSE /\ workersSt' = [workersSt EXCEPT ![w].pc = "run"]
            /\ ptrace' = TraceStart(ptrace, workersSt[w].job)
  /\ UNCHANGED <<pcall, ctxDone, jobsClosed, resultsCh, errCh, poolOut, programVars, engineVars, walkVars, runVars, writerVars, unitVars>>

\* the job body ends; a failed hash puts its error into errCh if errCh is
\* empty
WorkerFinish(w) ==
  /\ w \in DOMAIN workersSt /\ workersSt[w].pc = "run"
  /\ LET j == workersSt[w].job
         failed == j \in pcall.fails
     IN /\ ptrace' = TraceFinish(ptrace, j, failed /\ pcall.kind = "hash")
        /\ IF failed /\ pcall.kind = "hash"
             THEN /\ errCh' = IF errCh = <<>> THEN <<j>> ELSE errCh
                  /\ workersSt' = [workersSt EXCEPT ![w].pc = "cancel"]
             ELSE /\ errCh' = errCh
                  /\ workersSt' = [workersSt EXCEPT ![w].pc = "send"]
  /\ UNCHANGED <<pcall, ctxDone, jobsClosed, resultsCh, poolOut, programVars, engineVars, walkVars, runVars, writerVars, unitVars>>

\* the failed hash worker raises the signal and returns
WorkerCancel(w) ==
  /\ w \in DOMAIN workersSt /\ workersSt[w].pc = "cancel"
  /\ ctxDone' = TRUE
  /\ workersSt' = [workersSt EXCEPT ![w].pc = "done"]
  /\ UNCHANGED <<pcall, jobsClosed, resultsCh, errCh, poolOut, ptrace, programVars, engineVars, walkVars, runVars, writerVars, unitVars>>

\* variant: resultsCh has room for one result only
WorkerSend_OneSlot(w) ==
  /\ w \in DOMAIN workersSt /\ workersSt[w].pc = "send"
  /\ Len(resultsCh) < 1
  /\ LET j == workersSt[w].job
     IN resultsCh' = Append(resultsCh,
                            [index |-> JobIndex(j), value |-> ResultOf(j),
                             err |-> j \in pcall.fails])
  /\ workersSt' = [workersSt EXCEPT ![w] = IdleWorker]
  /\ UNCHANGED <<pcall, ctxDone, jobsClosed, errCh, poolOut, ptrace, programVars, engineVars, walkVars, runVars, writerVars, unitVars>>

\* the worker sends its result (resultsCh has room for every job) and waits
\* for the next job
WorkerSend(w) ==
  /\ w \in DOMAIN workersSt /\ workersSt[w].pc = "send"
  /\ Len(resultsCh) < pcall.n
  /\ LET j == workersSt[w].job
     IN resultsCh' = Append(resultsCh,
                            [index |-> JobIndex(j), value |-> ResultOf(j),
                             err |-> j \in pcall.fails])
  /\ workersSt' = [workersSt EXCEPT ![w] = IdleWorker]
  /\ UNCHANGED <<pcall, ctxDone, jobsClosed, errCh, poolOut, ptrace, programVars, engineVars, walkVars, runVars, writerVars, unitVars>>

\* the worker's select takes the context's case instead and the worker
\* returns
WorkerSendCancelled(w) ==
  /\ w \in DOMAIN workersSt /\ workersSt[w].pc = "send"
  /\ ctxDone
  /\ workersSt' = [workersSt EXCEPT ![w].pc = "done"]
  /\ UNCHANGED <<pcall, ctxDone, jobsClosed, resultsCh, errCh, poolOut, ptrace, programVars, engineVars, walkVars, runVars, writerVars, unitVars>>

\* hashMissingEntries after wg.Wait: the error in errCh, else the context's
\* error, else the results are stored and counted
HashCollect ==
  /\ pcall.kind = "hash" /\ pcall.mpc = "wait"
  /\ AllWorkersDone
  /\ IF errCh # <<>>
       THEN /\ pcall' = PoolReturn(pcall, "error", errCh[1])
            /\ errCh' = <<>>
            /\ UNCHANGED <<poolOut, resultsCh>>
            /\ ptrace' = TraceAtReturn(ptrace)
     ELSE IF ctxDone
       THEN /\ pcall' = PoolReturn(pcall, "cancelled", 0)
            /\ UNCHANGED <<poolOut, resultsCh, errCh>>
            /\ ptrace' = TraceAtReturn(ptrace)
     ELSE /\ poolOut' = storeResults(poolOut, resultsCh)
          /\ resultsCh' = <<>>
          /\ errCh' = errCh
          /\ pcall' = [PoolReturn(pcall, IF Len(resultsCh) # pcall.n THEN "incomplete" ELSE "ok", 0)
                         EXCEPT !.collected = Len(resultsCh)]
          /\ ptrace' = TraceAtReturn([ptrace EXCEPT !.written =
                                        @ \cup {resultsCh[i].index : i \in DOMAIN resultsCh}])
  /\ UNCHANGED <<ctxDone, jobsClosed, workersSt, programVars, engineVars, walkVars, runVars, writerVars, unitVars>>

\* analyzePackagesParallel's collection loop receives one result; a failed
\* package is skipped
AnalysisCollect ==
  /\ pcall.kind = "analysis" /\ pcall.mpc = "collect"
  /\ resultsCh # <<>>
  /\ LET r == Head(resultsCh)
     IN /\ poolOut' = IF r.err THEN poolOut ELSE [poolOut EXCEPT ![r.index] = r.value]
        /\ ptrace' = [ptrace EXCEPT !.written = IF r.err THEN @ ELSE @ \cup {r.index}]
  /\ resultsCh' = Tail(resultsCh)
  /\ pcall' = [pcall EXCEPT !.collected = @ + 1,
                            !.mpc = IF pcall.collected + 1 = pcall.n THEN "wait" ELSE @]
  /\ UNCHANGED <<ctxDone, jobsClosed, errCh, workersSt, programVars, engineVars, walkVars, runVars, writerVars, unitVars>>

\* the collection loop's select takes the context's case: the call returns
\* at once, the goroutines run on
AnalysisCollectCancelled ==
  /\ pcall.kind = "analysis" /\ pcall.mpc = "collect"
  /\ ctxDone
  /\ pcall' = PoolReturn(pcall, "cancelled", 0)
  /\ ptrace' = TraceAtReturn(ptrace)
  /\ UNCHANGED <<ctxDone, jobsClosed, resultsCh, errCh, workersSt, poolOut, programVars, engineVars, walkVars, runVars, writerVars, unitVars>>

\* analyzePackagesParallel after its collection loop: wg.Wait, return nil
AnalysisWait ==
  /\ pcall.kind = "analysis" /\ pcall.mpc = "wait"
  /\ AllWorkersDone
  /\ pcall' = PoolReturn(pcall, "ok", 0)
  /\ ptrace' = TraceAtReturn(ptrace)
  /\ UNCHANGED <<ctxDone, jobsClosed, resultsCh, errCh, workersSt, poolOut, programVars, engineVars, walkVars, runVars, writerVars, unitVars>>

\* the steps of the goroutines of a call
PoolRun ==
  \/ SeqBegin
  \/ SeqFinish
  \/ \E w \in 1..MaxProcs : Dispatch(w)
  \/ DispatchEnd
  \/ \E w \in 1..MaxProcs : WorkerClosed(w)
  \/ \E w \in 1..MaxProcs : WorkerTake(w)
  \/ \E w \in 1..MaxProcs : WorkerFinish(w)
  \/ \E w \in 1..MaxProcs : WorkerCancel(w)
  \/ \E w \in 1..MaxProcs : WorkerSend(w)
  \/ \E w \in 1..MaxProcs : WorkerSendCancelled(w)
  \/ HashCollect
  \/ AnalysisCollect
  \/ AnalysisCollectCancelled
  \/ AnalysisWait

NextPool ==
  \/ \E kind \in PoolKinds, n \in 0..MaxJobs, procs \in 1..MaxProcs :
       \E fails \in SUBSET (1..n) : StartPool(kind, n, procs, fails)
  \/ ParentCancel
  \/ PoolRun

SpecPool == InitRegistry /\ [][NextPool]_vars
\* every goroutine that can take a step eventually takes one
SpecPoolFair == SpecPool /\ WF_vars(PoolRun)

(* ------------------------- a run, step by step -------------------------- *)
\* EnsureUpToDate taken at the places where another process can change the
\* tree or the run can stop: after the snapshot (the stat of every file), after
\* each hashing of file contents, after each output file, before the caches
\* are persisted.
\* no run is under way; nothing is followed further after the staleness
\* check that comes after a run
RunIdle == pc = "idle" /\ rc.phase = "idle" /\ res.op # "IsStale"

\* the run ends, and how: it returned without error ("returned"), with an
\* error before any output was written ("failed") or after one was written
\* ("error"), or the process died after one was written ("crash")
RunEnds(how, out) ==
  /\ rc' = [NoRun EXCEPT !.modified = rc.modified, !.last = how]
  /\ res' = out

RunBase == [NoResult EXCEPT !.op = "EnsureUpToDate"]

\* readState and ReadExistingHash, then the index: rebuilt from the cache
\* state, or, when the metadata check does not settle the call, walked
RunSnapshot ==
  LET rs == readState(stateFileCache, stateDisk)
      e == ReadExistingHash(hashFileCache.out, outDisk)
      p == ReadExistingHash(hashFileCache.paths, pathsDisk)
      begun(ph, idx, walked) ==
        /\ rc' = [NoRun EXCEPT !.phase = ph, !.state = rs.state, !.idx = idx,
                               !.out = [RunBase EXCEPT !.walked = walked]]
        /\ UNCHANGED res
      settled(st, h) ==
        /\ rc' = [NoRun EXCEPT !.last = IF st = "ok" THEN "returned" ELSE "failed"]
        /\ res' = [RunBase EXCEPT !.status = st, !.hash = h, !.fromCache = (st = "ok")]
      fromMetadata(f) ==
        IF f.status # "ok" THEN settled(f.status, NoHash)
        ELSE IF f.ok /\ OutputsCarry(e.hash, p.hash, f.hash) THEN settled("ok", f.hash)
        ELSE IF WalkFails(CurTree) THEN settled("error", NoHash)
        ELSE begun("hash", BuildFileIndex(CurTree), TRUE)
      tiers(b) ==
        IF b.status # "ok" THEN settled(b.status, NoHash)
        ELSE IF b.ok THEN
          IF b.unchanged
            THEN IF OutputsCarry(e.hash, p.hash, rs.state.AggregateHash)
                   THEN settled("ok", rs.state.AggregateHash)
                 ELSE begun("hash", b.idx, FALSE)
          ELSE begun("hashOnly", b.idx, FALSE)
        ELSE fromMetadata(aggregateHashFromFilesystemState(
                            CurTree, rs.state, IgnoredRootEntries, FALSE))
  IN /\ RunIdle /\ rc.last = "none" /\ nRuns < MaxRuns
     /\ nRuns' = nRuns + 1
     /\ stateFileCache' = rs.mem
     /\ hashFileCache' = [out |-> e.mem, paths |-> p.mem]
     /\ tiers(buildFileIndexFromState(CurTree, rs.state, IgnoredRootEntries, FALSE))
     /\ UNCHANGED <<treeVars, clock, stateDisk, stateTmp, stateLastFlush, analysisFileVars,
                    outDisk, pathsDisk, nFs, quiet, writeVars, engineVars, walkVars,
                    poolVars, writerVars, unitVars>>

RunFrame ==
  UNCHANGED <<treeVars, clock, stateFileVars, analysisFileVars, outputVars,
              nRuns, nFs, quiet, writeVars, engineVars, walkVars, poolVars, writerVars, unitVars>>

\* computeAggregateHashOnly over the rebuilt index, files read as they are now
RunHashOnly ==
  LET only == computeAggregateHashOnly(rc.idx, rc.state, CurTree, FALSE)
      e == ReadExistingHash(hashFileCache.out, outDisk)
      p == ReadExistingHash(hashFileCache.paths, pathsDisk)
  IN /\ rc.phase = "hashOnly"
     /\ IF only.status # "ok"
          THEN RunEnds("failed", [rc.out EXCEPT !.status = only.status])
        ELSE IF OutputsCarry(e.hash, p.hash, only.hash)
          THEN RunEnds("returned", [rc.out EXCEPT !.hash = only.hash, !.hashed = only.hashed])
        ELSE /\ rc' = [rc EXCEPT !.phase = "hash", !.out.hashed = only.hashed]
             /\ UNCHANGED res
     /\ RunFrame

\* computeAggregateHash over the snapshot, files read as they are now
RunHash ==
  LET ch == computeAggregateHash(rc.idx, rc.state, CurTree, MaxProcs, FALSE, FALSE)
      e == ReadExistingHash(hashFileCache.out, outDisk)
      p == ReadExistingHash(hashFileCache.paths, pathsDisk)
  IN /\ rc.phase = "hash"
     /\ IF ch.status # "ok"
          THEN RunEnds("failed", [rc.out EXCEPT !.status = ch.status])
        ELSE IF OutputsCarry(e.hash, p.hash, ch.hash)
          THEN RunEnds("returned", [rc.out EXCEPT !.hash = ch.hash,
                                                  !.hashed = @ \cup ch.hashed])
        ELSE /\ rc' = [rc EXCEPT !.phase = "generate", !.next = ch.next, !.hash = ch.hash,
                                 !.out.hashed = @ \cup ch.hashed]
             /\ UNCHANGED res
     /\ RunFrame

\* generateOutputs up to the first output file: readAnalysisCache, the
\* analysis, writeRenderedOutput of the markdown output
RunGenerate ==
  LET ra == readAnalysisCache(analysisFileCache, analysisDisk)
      g == generateOutputs(CurTree, rc.state, rc.next, rc.hash, rc.idx, rc.out,
                           hashFileCache, stateFileCache, MaxProcs, NeverCancelled, FALSE)
      o == writeRenderedOutput(rc.hash)
  IN /\ rc.phase = "generate"
     /\ analysisFileCache' = ra.mem
     /\ IF g.out.status # "ok"
          THEN /\ RunEnds("failed", g.out)
               /\ UNCHANGED outputVars
        ELSE /\ rc' = [rc EXCEPT !.phase = "paths", !.out = g.out,
                                 !.analysis = IF g.afc.cached THEN g.afc.v ELSE NilAnalysis]
             /\ outDisk' = o.disk
             /\ hashFileCache' = [hashFileCache EXCEPT !.out = o.mem]
             /\ UNCHANGED <<res, pathsDisk>>
     /\ UNCHANGED <<treeVars, clock, stateFileVars, analysisDisk, analysisTmp,
                    analysisLastFlush, nRuns, nFs, quiet, writeVars, engineVars,
                    walkVars, poolVars, writerVars, unitVars>>

\* writeRenderedOutput of the paths output
RunWritePaths ==
  LET o == writeRenderedOutput(rc.hash)
  IN /\ rc.phase = "paths"
     /\ pathsDisk' = o.disk
     /\ hashFileCache' = [hashFileCache EXCEPT !.paths = o.mem]
     /\ rc' = [rc EXCEPT !.phase = "state"]
     /\ UNCHANGED <<treeVars, clock, stateFileVars, analysisFileVars, outDisk, res,
                    nRuns, nFs, quiet, writeVars, engineVars, walkVars, poolVars, writerVars, unitVars>>

\* os.WriteFile of the paths output fails: generateOutputs returns the error
RunWritePathsFails ==
  /\ rc.phase = "paths"
  /\ RunEnds("error", [rc.out EXCEPT !.status = "error"])
  /\ RunFrame

\* writeState and writeAnalysisCache, then the return
RunPersist ==
  LET ws == writeState(stateFileCache, stateLastFlush, stateDisk, rc.next, clock)
      wa == writeAnalysisCache(analysisFileCache, analysisLastFlush, analysisDisk,
                               rc.analysis, clock)
  IN /\ rc.phase = "state"
     /\ stateFileCache' = ws.mem /\ stateLastFlush' = ws.last /\ stateDisk' = ws.disk
     /\ analysisFileCache' = wa.mem /\ analysisLastFlush' = wa.last /\ analysisDisk' = wa.disk
     /\ quiet' = TRUE
     /\ RunEnds("returned", rc.out)
     /\ UNCHANGED <<treeVars, clock, stateTmp, analysisTmp, outputVars, nRuns, nFs,
                    writeVars, engineVars, walkVars, poolVars, writerVars, unitVars>>

\* writeState gets to the disk and fails there: the read cache and the flush
\* time are already set, the file is as it was; generateOutputs returns the
\* error
RunPersistFails ==
  LET d == writeStateDecision(stateFileCache, stateLastFlush, rc.next, clock)
  IN /\ rc.phase = "state"
     /\ d.flush
     /\ stateFileCache' = d.mem /\ stateLastFlush' = d.last
     /\ RunEnds("error", [rc.out EXCEPT !.status = "error"])
     /\ UNCHANGED <<treeVars, clock, stateDisk, stateTmp, analysisFileVars, outputVars,
                    nRuns, nFs, quiet, writeVars, engineVars, walkVars, poolVars, writerVars, unitVars>>

\* the process dies after an output file is written and before the cache
\* state is persisted; the next process starts with empty process-wide maps
RunCrash ==
  /\ rc.phase \in {"paths", "state"}
  /\ stateFileCache' = NotCached(NilState) /\ stateLastFlush' = NoFlush
  /\ analysisFileCache' = NotCached(NilAnalysis) /\ analysisLastFlush' = NoFlush
  /\ hashFileCache' = EmptyHashCache
  /\ rc' = [NoRun EXCEPT !.modified = rc.modified, !.last = "crash"]
  /\ UNCHANGED <<treeVars, clock, stateDisk, stateTmp, analysisDisk, analysisTmp,
                 outDisk, pathsDisk, res, nRuns, nFs, quiet, writeVars, engineVars,
                 walkVars, poolVars, writerVars, unitVars>>

\* another process rewrites a tracked file: before the first run, while a
\* run is at one of its places, or after a run has ended
RunTreeWrite(p, c) ==
  /\ res.op # "IsStale"
  /\ nFs < MaxFsOps /\ nFs' = nFs + 1
  /\ fs[p].exists /\ fs[p].c # c
  /\ fs' = [fs EXCEPT ![p] = FileOf(c, clock)]
  /\ rc' = [rc EXCEPT !.modified = @ \/ rc.phase # "idle",
                      !.after = @ \/ (rc.phase = "idle" /\ rc.last # "none")]
  /\ quiet' = FALSE
  /\ UNCHANGED <<dirA, denied, clock, stateFileVars, analysisFileVars, outputVars,
                 res, nRuns, writeVars, engineVars, walkVars, poolVars, writerVars, unitVars>>

\* earlier runs of the same process, each taken as a whole
RunEarlier == RunIdle /\ rc.last = "none" /\ EnsureUpToDateOp(MaxProcs, NeverCancelled, FALSE)
RunIsStale == RunIdle /\ rc.last # "none" /\ IsStaleOp(NeverCancelled)

RunTick == res.op # "IsStale" /\ Tick

NextRun ==
  \/ RunTick
  \/ \E p \in TrackedPaths, c \in Contents : RunTreeWrite(p, c)
  \/ RunEarlier
  \/ RunSnapshot
  \/ RunHashOnly
  \/ RunHash
  \/ RunGenerate
  \/ RunWritePaths
  \/ RunWritePathsFails
  \/ RunPersist
  \/ RunPersistFails
  \/ RunCrash
  \/ RunIsStale

SpecRun == Init /\ [][NextRun]_vars

(* ------------------- several writers of one state path ------------------ *)
\* writeState run by several processes on the same path.  Each process has
\* its own stateLastFlush; all of them use the temporary file path + ".tmp".
\* os.WriteFile opens the temporary file (creating or truncating it), writes
\* and closes; os.Rename moves whatever file holds the temporary name.
WriterFrame ==
  UNCHANGED <<treeVars, stateFileCache, stateLastFlush, analysisFileVars, outputVars,
              res, nFs, quiet, writeVars, engineVars, walkVars, poolVars, runVars, unitVars>>

\* writeState up to the debounce decision, with the process's own flush time
WriterCall(w, state) ==
  LET decided(d) ==
        writers' = [writers EXCEPT ![w] =
                      IF d.flush
                        THEN [@ EXCEPT !.pc = "marshalled", !.last = d.last, !.req = state,
                                       !.ret = "none"]
                      ELSE [@ EXCEPT !.req = state, !.ret = "ok"]]
  IN /\ writers[w].pc = "idle" /\ nRuns < MaxWrites
     /\ nRuns' = nRuns + 1
     /\ decided(writeStateDecision(NotCached(NilState), writers[w].last, state, clock))
     /\ UNCHANGED <<stateDisk, stateTmp, clock>>
     /\ WriterFrame

\* os.WriteFile(tmpPath) opens the file: a file that holds the name is
\* truncated, under the hands of every process still writing it
WriterOpen(w) ==
  /\ writers[w].pc = "marshalled"
  /\ stateTmp' = PartialFile(writers[w].req)
  /\ writers' = [v \in Writers |->
                   IF v = w THEN [writers[v] EXCEPT !.pc = "writing", !.fd = "tmp",
                                                    !.clean = TRUE]
                   ELSE IF writers[v].fd = "tmp" THEN [writers[v] EXCEPT !.clean = FALSE]
                   ELSE writers[v]]
  /\ UNCHANGED <<stateDisk, clock, nRuns>>
  /\ WriterFrame

\* os.WriteFile(tmpPath) fails: writeState returns the error
WriterOpenFails(w) ==
  /\ writers[w].pc = "marshalled"
  /\ writers' = [writers EXCEPT ![w] = [@ EXCEPT !.pc = "idle", !.ret = "error"]]
  /\ UNCHANGED <<stateDisk, stateTmp, clock, nRuns>>
  /\ WriterFrame

\* the bytes are written and the file closed.  The file is the one opened,
\* wherever it is by now.  When another process opened or wrote the same file
\* in between, the bytes left are this process's or a mixture.
WriterWritten(w, mixed) ==
  LET file == IF mixed THEN CorruptFile(NilState) ELSE CompleteFile(writers[w].req)
  IN /\ writers[w].pc = "writing"
     /\ mixed => ~writers[w].clean
     /\ IF writers[w].fd = "tmp"
          THEN stateTmp' = file /\ UNCHANGED stateDisk
          ELSE stateDisk' = file /\ UNCHANGED stateTmp
     /\ writers' = [v \in Writers |->
                      IF v = w THEN [writers[v] EXCEPT !.pc = "written", !.fd = "none"]
                      ELSE IF writers[v].fd = writers[w].fd
                        THEN [writers[v] EXCEPT !.clean = FALSE]
                      ELSE writers[v]]
     /\ UNCHANGED <<clock, nRuns>>
     /\ WriterFrame

\* os.Rename(tmpPath, path): the file holding the temporary name, complete or
\* not, becomes the state file; with no such file the rename fails, and
\* writeState returns the error
WriterRename(w) ==
  /\ writers[w].pc = "written"
  /\ IF stateTmp.kind = "absent"
       THEN /\ writers' = [writers EXCEPT ![w] = [@ EXCEPT !.pc = "idle", !.ret = "error"]]
            /\ UNCHANGED <<stateDisk, stateTmp>>
     ELSE /\ stateDisk' = stateTmp /\ stateTmp' = AbsentFile(NilState)
          /\ writers' = [v \in Writers |->
                           IF v = w THEN [writers[v] EXCEPT !.pc = "idle", !.ret = "ok"]
                           ELSE IF writers[v].fd = "tmp" THEN [writers[v] EXCEPT !.fd = "path"]
                           ELSE writers[v]]
  /\ UNCHANGED <<clock, nRuns>>
  /\ WriterFrame

WriterTick ==
  /\ clock < MaxWriteTicks * TickMs
  /\ clock' = clock + TickMs
  /\ UNCHANGED <<stateDisk, stateTmp, nRuns, writers>>
  /\ WriterFrame

NextWriters ==
  \/ WriterTick
  \/ \E w \in Writers, state \in StateData : WriterCall(w, state)
  \/ \E w \in Writers : WriterOpen(w)
  \/ \E w \in Writers : WriterOpenFails(w)
  \/ \E w \in Writers, mixed \in BOOLEAN : WriterWritten(w, mixed)
  \/ \E w \in Writers : WriterRename(w)

SpecWriters == Init /\ [][NextWriters]_vars

(* --------------------- analysers of several languages ------------------- *)
\* A tree with one unit per language.  Every analyser plans its own units,
\* looks its units up in the cache of the previous run under its own scope
\* (modulePath) and ends with updateAnalysisCache on the shared next state.
LangOrder == <<languageGo, languageRust, languageTypeScript>>
\* the modulePath an analyser passes: findModulePath(root) for Go, a constant
\* for the others
ScopeOf(l) == IF l = languageGo THEN ModulePathOfTree ELSE l
\* the unit of a language: its directory and the fingerprint of its file
UnitPlan(l, ver) ==
  [RelativePath |-> l, FileRelPaths |-> <<l>>, Fingerprint |-> << <<l, 10 + ver[l]>> >>]
SomeState == [isNil |-> FALSE]

\* updateAnalysisCache(nextState, opts, modulePath, plans, packageResults):
\* nextState.Analysis is replaced by a cache of the given plans
updateAnalysisCache(modulePath, plans) ==
  [isNil |-> FALSE, Version |-> analysisCacheVersionV2,
   IncludeTests |-> OptsIncludeTests, LargePackageFiles |-> OptsLargePackageFiles,
   ModulePath |-> modulePath,
   Packages |-> [k \in 1..Len(plans) |->
                   [RelativePath |-> plans[k].RelativePath,
                    Fingerprint |-> plans[k].Fingerprint,
                    FileRelPaths |-> plans[k].FileRelPaths,
                    Package |-> plans[k].RelativePath]]]

\* one analyser: is its unit taken from the previous cache, and the cache it
\* leaves in the next state
analyzeLanguage(l, present, ver, prev) ==
  LET plans == IF l \in present THEN <<UnitPlan(l, ver)>> ELSE <<>>
      cachedPkgs == cachedPackagesByPath(SomeState, prev, OptsIncludeTests,
                                         OptsLargePackageFiles, ScopeOf(l))
  IN [reused |-> \E k \in 1..Len(plans) :
                   \E j \in cachedByRel(cachedPkgs, plans[k].RelativePath) :
                     reusable(cachedPkgs[j], plans[k]),
      next |-> updateAnalysisCache(ScopeOf(l), plans)]

\* the loop of AnalyzeWithRegistry: every analyser gets the same previous
\* state and the same next state
RECURSIVE runAnalyzers(_, _, _, _, _, _)
runAnalyzers(ids, i, present, ver, prev, acc) ==
  IF i > Len(ids) THEN acc
  ELSE LET a == analyzeLanguage(ids[i], present, ver, prev)
       IN runAnalyzers(ids, i + 1, present, ver, prev,
                       [next |-> a.next,
                        reused |-> IF a.reused THEN acc.reused \cup {ids[i]} ELSE acc.reused])

\* a run that generates: the languages of the index are selected (Go when
\* there is none), their analysers run, the analysis cache of the next state
\* is written (an empty one removes the file)
LangRun ==
  LET idx == LangIndexOf(SelectSeq(LangOrder, LAMBDA l : l \in lrun.present))
      chosen == selectedAnalyzerLanguageIDs(idx, DefaultAnalyzerRegistry)
      ids == IF Len(chosen) = 0
               THEN <<fallbackAnalyzerLanguageID(DefaultAnalyzerRegistry).id>>
             ELSE chosen
      done(r) ==
        lrun' = [lrun EXCEPT
                   !.cache = IF Len(r.next.Packages) = 0 THEN NilAnalysis ELSE r.next,
                   !.executed = ids, !.reused = r.reused, !.runs = @ + 1]
  IN /\ lrun.runs < MaxRuns
     /\ done(runAnalyzers(ids, 1, lrun.present, lrun.ver, lrun.cache,
                          [next |-> NilAnalysis, reused |-> {}]))
     /\ UNCHANGED <<fprun, programVars, engineVars, walkVars, poolVars, runVars, writerVars>>

\* the file of a language's unit is rewritten, a unit is added (freely
\* before the first run) or removed
LangEdit(l) ==
  /\ lrun.edits < MaxFsOps /\ l \in lrun.present
  /\ lrun' = [lrun EXCEPT !.ver[l] = 3 - @, !.edits = @ + 1]
  /\ UNCHANGED <<fprun, programVars, engineVars, walkVars, poolVars, runVars, writerVars>>

LangAdd(l) ==
  /\ l \notin lrun.present
  /\ lrun.runs = 0 \/ lrun.edits < MaxFsOps
  /\ lrun' = [lrun EXCEPT !.present = @ \cup {l},
                          !.edits = IF lrun.runs = 0 THEN @ ELSE @ + 1]
  /\ UNCHANGED <<fprun, programVars, engineVars, walkVars, poolVars, runVars, writerVars>>

LangRemove(l) ==
  /\ lrun.edits < MaxFsOps /\ l \in lrun.present
  /\ lrun' = [lrun EXCEPT !.present = @ \ {l}, !.edits = @ + 1]
  /\ UNCHANGED <<fprun, programVars, engineVars, walkVars, poolVars, runVars, writerVars>>

NextLanguages ==
  \/ LangRun
  \/ \E l \in BuiltinLanguages : LangEdit(l)
  \/ \E l \in BuiltinLanguages : LangAdd(l)
  \/ \E l \in BuiltinLanguages : LangRemove(l)

SpecLanguages == InitRegistry /\ [][NextLanguages]_vars

(* ------------------------------ planning -------------------------------- *)
\* buildPackagePlansFromIndex over an index whose files come in the order of
\* a walk or in the order of the cache state, and a next state that has, for
\* each file, no entry, an entry without content hash, or a content hash
PlanWalkOrder == <<"a/b.go", "a/c.go", "a.go">>
PlanFilesIn(order, members) ==
  SelectSeq(IF order = "walk" THEN PlanWalkOrder ELSE SetToSortedSeq(PlanPaths),
            LAMBDA p : p \in members)
PlanIndex(order, members) ==
  LET files == PlanFilesIn(order, members)
  IN [RootEntries |-> <<>>, Dirs |-> <<>>,
      Files |-> [i \in 1..Len(files) |->
                   [RelPath |-> files[i], Size |-> 1, M |-> 0,
                    Language |-> matchLanguageForPath(files[i]).ID,
                    IsTest |-> matchLanguageForPath(files[i]).IsTest]]]
PlanState(members, hashes) ==
  LET known == SelectSeq(SetToSortedSeq(PlanPaths),
                         LAMBDA p : p \in members /\ hashes[p] # NoStateEntry)
  IN [isNil |-> FALSE, Version |-> codemapStateVersion, AggregateHash |-> NoHash,
      RootEntries |-> <<>>, Dirs |-> <<>>,
      Entries |-> [i \in 1..Len(known) |->
                     [RelPath |-> known[i], Size |-> 1, M |-> 0,
                      ContentHash |-> hashes[known[i]],
                      Language |-> matchLanguageForPath(known[i]).ID,
                      IsTest |-> matchLanguageForPath(known[i]).IsTest]]]

PlanFrame ==
  UNCHANGED <<lrun, programVars, engineVars, walkVars, poolVars, runVars, writerVars>>

\* the index and the next state handed to the planning
PlanInput(members, order, hashes) ==
  /\ fprun = NoPlanRun
  /\ members # {}
  /\ \A p \in PlanPaths \ members : hashes[p] = NoStateEntry
  /\ fprun' = [NoPlanRun EXCEPT !.members = members, !.order = order, !.hashes = hashes]
  /\ PlanFrame

PlanBuild ==
  /\ fprun.members # {} /\ ~fprun.planned
  /\ fprun' = [fprun EXCEPT
                 !.planned = TRUE,
                 !.plans = buildPackagePlansFromIndex(
                             PlanIndex(fprun.order, fprun.members), OptsIncludeTests,
                             PlanState(fprun.members, fprun.hashes))]
  /\ PlanFrame

NextPlanning ==
  \/ \E members \in SUBSET PlanPaths, order \in {"walk", "state"},
        hashes \in [PlanPaths -> PlanHashes] : PlanInput(members, order, hashes)
  \/ PlanBuild

SpecPlanning == InitRegistry /\ [][NextPlanning]_vars

(* ======================================================================= *)
(*                               properties                                *)
(* ======================================================================= *)
\* the cache state a read would return now
StateNow == readState(stateFileCache, stateDisk).state
\* tier 1 and tier 3 applied to the tree as it is now
Tier1Now == aggregateHashFromFilesystemState(CurTree, StateNow, IgnoredRootEntries, FALSE)
Tier3Now == computeAggregateHashOnly(BuildFileIndex(CurTree), StateNow, CurTree, FALSE)

\* C1: IsStale returns true exactly when an output file carries no
\* extractable hash or the hash it computed for the tree differs from the
\* hash recorded in an output; otherwise it returns false.
C1_IsStaleVerdict ==
  (res.op = "IsStale" /\ res.status = "ok") =>
    (res.stale <=> \/ outDisk.hash = NoHash \/ pathsDisk.hash = NoHash
                   \/ outDisk.hash # res.hash \/ pathsDisk.hash # res.hash)

\* IsStale answered "stale" although both outputs carry a hash
C1_Witness ==
  /\ res.op = "IsStale" /\ res.status = "ok" /\ res.stale
  /\ outDisk.hash # NoHash /\ pathsDisk.hash # NoHash /\ res.hash # NoHash

\* C2: whenever tier 1 accepts the persisted state, tier 1 and tier 3 give
\* the same staleness verdict against the recorded hash and, when that
\* verdict is "not stale", the same aggregate hash.
C2_TiersAgree ==
  (Tier1Now.ok /\ outDisk.hash # NoHash) =>
    /\ (Tier1Now.hash = outDisk.hash) <=> (Tier3Now.hash = outDisk.hash)
    /\ (Tier1Now.hash = outDisk.hash) => (Tier1Now.hash = Tier3Now.hash)

\* the aggregate hash a recompute over a fresh walk of t gives when the
\* cache state prev is passed
RecomputeWith(t, prev) ==
  computeAggregateHash(BuildFileIndex(t), prev, t, 1, FALSE, FALSE).hash
\* the step changes bytes of the tracked file p and keeps its length
ByteChanged(p) ==
  /\ fs[p].exists /\ fs'[p].exists /\ fs'[p].c # fs[p].c
  /\ SizeOf(fs'[p].c) = SizeOf(fs[p].c)
\* the entry of the cache state for p, as a set (empty when there is none)
EntriesFor(state, p) ==
  IF state.isNil THEN {}
  ELSE {state.Entries[i] : i \in {j \in 1..Len(state.Entries) : state.Entries[j].RelPath = p}}

FileAdded(p) == ~fs[p].exists /\ fs'[p].exists
FileDeleted(p) == fs[p].exists /\ ~fs'[p].exists
\* the recorded modification times of directory d in the cache state
DirTimesFor(state, d) ==
  IF state.isNil THEN {}
  ELSE {state.Dirs[i].M : i \in {j \in 1..Len(state.Dirs) : state.Dirs[j].RelPath = d}}
\* the metadata-only fast path accepts the cache state for the tree t
Tier1Matches(t) ==
  aggregateHashFromFilesystemState(t, StateNow, IgnoredRootEntries, FALSE).ok

Touched(p) ==
  /\ fs[p].exists /\ fs'[p].exists /\ fs'[p].c = fs[p].c /\ fs'[p].m # fs[p].m
\* the aggregate hash over the index reconstructed from the cache state
HashViaState(t, state) ==
  LET b == buildFileIndexFromState(t, state, IgnoredRootEntries, FALSE)
  IN IF b.ok THEN computeAggregateHashOnly(b.idx, state, t, FALSE).hash ELSE NoHash
\* the aggregate hash over the index of a full walk
HashViaWalk(t, state) ==
  computeAggregateHashOnly(BuildFileIndex(t), state, t, FALSE).hash

\* C5: touching a file's modification time without changing its bytes does
\* not change the aggregate hash, on the path over the index reconstructed
\* from the cache state and on the path over a full walk.
C5_TouchKeepsHash ==
  [][\A p \in TrackedPaths : Touched(p) =>
        /\ HashViaWalk(CurTree', StateNow) = HashViaWalk(CurTree, StateNow)
        /\ HashViaState(CurTree, StateNow) # NoHash =>
              HashViaState(CurTree', StateNow) = HashViaState(CurTree, StateNow)]_vars

\* C6: when nothing changed since a successful EnsureUpToDate, the next
\* EnsureUpToDate reports generated = false with a nil model, and IsStale
\* reports "not stale".
C6_SecondRunIsNoOp ==
  [][(quiet /\ nRuns' # nRuns) =>
        /\ res'.status = "ok"
        /\ res'.op = "EnsureUpToDate" => (~res'.generated /\ res'.model = <<>>)
        /\ res'.op = "IsStale" => ~res'.stale]_vars

\* a second EnsureUpToDate ran on an unchanged tree after one that generated
C6_Witness ==
  /\ quiet /\ nRuns >= 2 /\ res.op = "EnsureUpToDate" /\ res.status = "ok"
  /\ ~res.generated /\ res.hash # NoHash /\ outDisk.hash = res.hash

\* the cache file does not parse or carries another version, and nothing
\* is held in the read cache
Unreadable(mem, disk, version) ==
  /\ ~mem.cached
  /\ \/ disk.kind \in {"corrupt", "partial"}
     \/ disk.kind = "ok" /\ disk.data.Version # version
ExistingFiles == {p \in TrackedPaths : fs[p].exists}
\* the packages of a returned model
Rendered(model) == {model[i].RelativePath : i \in 1..Len(model)}

\* C9: a state file or analysis cache that does not parse or has another
\* version reads like an absent file (no cache, nothing remembered), and the
\* run that follows succeeds, hashing every tracked file when the state was
\* unreadable and analysing every package it renders when either file was.
C9_UnreadableCacheIsNoCache ==
  [][(nRuns' # nRuns) =>
        /\ Unreadable(stateFileCache, stateDisk, codemapStateVersion) =>
              /\ readState(stateFileCache, stateDisk)
                   = readState(stateFileCache, AbsentFile(NilState))
              /\ res'.status = "ok"
              /\ res'.hash # NoHash => (res'.walked /\ res'.hashed = ExistingFiles)
              /\ res'.generated => res'.analyzed = Rendered(res'.model)
        /\ Unreadable(analysisFileCache, analysisDisk, analysisCacheVersionV2) =>
              /\ readAnalysisCache(analysisFileCache, analysisDisk)
                   = readAnalysisCache(analysisFileCache, AbsentFile(NilAnalysis))
              /\ res'.status = "ok"
              /\ res'.generated => res'.analyzed = Rendered(res'.model)]_vars

\* EnsureUpToDate ran over an unreadable state file: it walked the tree and
\* hashed every file again
C9_Witness ==
  /\ stateDisk.kind = "corrupt" /\ hashFileCache.out.cached
  /\ res.op = "EnsureUpToDate" /\ res.status = "ok"
  /\ res.walked /\ res.hashed = ExistingFiles /\ ExistingFiles # {}

\* C7: whatever step of a cache write a crash interrupts, the file at the
\* cache path is complete and is the file from before the write or the
\* file the write installs.
C7_CachePathComplete ==
  /\ stateDisk.kind \in {"absent", "ok"} /\ analysisDisk.kind \in {"absent", "ok"}
  /\ wr.target = "state" => stateDisk \in {wr.prev, wr.next}
  /\ wr.target = "analysis" => analysisDisk \in {wr.prev, wr.next}

\* the process died while the temporary file was half written; the state
\* file still holds the previous state
C7_Witness ==
  /\ wr.at = "writing" /\ wr.target = "state" /\ stateTmp.kind = "partial"
  /\ wr.prev.kind = "ok" /\ stateDisk = wr.prev /\ wr.next # wr.prev

\* C8: a writeState call less than the flush interval after the last
\* flushed write leaves the disk alone and replaces the in-memory copy; a
\* call after the interval is written to disk; reads in the same process
\* return the state last passed to writeState.
C8_Debounce ==
  /\ [][(nRuns' # nRuns /\ res'.op = "writeState") =>
          IF stateLastFlush # NoFlush /\ clock - stateLastFlush < writeFlushInterval
            THEN /\ stateDisk' = stateDisk /\ stateTmp' = stateTmp /\ pc' = "idle"
                 /\ stateFileCache' = Cached(wr'.req)
            ELSE /\ pc' = "marshalled" /\ wr'.target = "state"
                 /\ wr'.next = CompleteFile(wr'.req)]_vars
  /\ [](~wr.req.isNil => readState(stateFileCache, stateDisk).state = wr.req)
  /\ []((pc = "idle" /\ wr.target = "state" /\ wr.live) => stateDisk = wr.next)

\* a write inside the interval: the disk holds the state flushed earlier,
\* the read cache the state passed last
C8_Witness ==
  /\ res.op = "writeState" /\ pc = "idle" /\ wr.target = "state" /\ wr.live
  /\ stateDisk = wr.next /\ stateDisk.data # wr.req /\ ~wr.req.isNil
  /\ clock > stateLastFlush
  /\ readState(stateFileCache, stateDisk).state = wr.req

CacheFilesWhole ==
  /\ stateDisk.kind \in {"absent", "ok"} /\ analysisDisk.kind \in {"absent", "ok"}
  /\ stateTmp.kind = "absent" /\ analysisTmp.kind = "absent"

\* C10 as stated: an operation whose context becomes done at any place
\* returns the cancellation result, and the cache files are whole.
C10_CancelledAnywhere ==
  [][(nRuns' # nRuns /\ res'.cancelAt # NeverCancelled) =>
        (res'.status = "cancelled" /\ CacheFilesWhole')]_vars

\* C10, amended: an operation whose context becomes done returns the
\* cancellation result or, when no later check of the context is reached,
\* success, never another error; a cancelled operation leaves the outputs,
\* both cache files and the flush times as they were; EnsureUpToDate called
\* with a context that is already done generates nothing, and returns the
\* cancellation result when the tree holds a tracked file; the cache files
\* are whole throughout.
C10_CancelledOrComplete ==
  /\ [][(nRuns' # nRuns /\ res'.cancelAt # NeverCancelled) =>
          /\ res'.status \in {"ok", "cancelled"}
          /\ res'.status = "cancelled" =>
                /\ ~res'.generated /\ ~res'.wrote
                /\ UNCHANGED <<stateDisk, stateTmp, stateLastFlush, analysisDisk,
                               analysisTmp, analysisLastFlush, outDisk, pathsDisk>>
          /\ (res'.op = "EnsureUpToDate" /\ res'.cancelAt = 1) =>
                /\ ~res'.generated
                /\ ExistingFiles # {} => res'.status = "cancelled"]_vars
  /\ [][nRuns' # nRuns => res'.status \in {"ok", "cancelled"}]_vars
  /\ []CacheFilesWhole

\* EnsureUpToDate over stale outputs was cancelled while the packages were
\* analysed: the earlier outputs and state are in place
C10_Witness ==
  /\ res.op = "EnsureUpToDate" /\ res.status = "cancelled" /\ res.cancelAt = PhaseNum.analyze
  /\ stateDisk.kind = "ok" /\ outDisk.exists
  /\ Tier3Now.hash # outDisk.hash

DiskVars ==
  <<stateDisk, stateTmp, stateLastFlush, analysisDisk, analysisTmp,
    analysisLastFlush, outDisk, pathsDisk>>

\* C11: a full walk that meets an unreadable directory and a hashing that
\* meets an unreadable file return an error with no index, no hash and no
\* next state; an operation that fails returns no hash and no model and
\* writes nothing, and an operation that succeeds has walked no unreadable
\* directory and hashed no unreadable file.
C11_ReadErrorAborts ==
  /\ [](WalkFails(CurTree) =>
          LET r == IsStaleFullWalk(CurTree, StateNow, NeverCancelled)
          IN r.status = "error" /\ r.hash = NoHash /\ r.hashed = {})
  /\ []((ExistingFiles \cap denied # {} /\ ~WalkFails(CurTree)) =>
          \A procs \in 1..MaxProcs :
            LET r == computeAggregateHash(BuildFileIndex(CurTree), NilState, CurTree,
                                          procs, FALSE, FALSE)
            IN r.status = "error" /\ r.hash = NoHash /\ r.next = NilState /\ r.hashed = {})
  /\ [][nRuns' # nRuns =>
          /\ res'.status = "ok" =>
                /\ res'.walked => ~WalkFails(CurTree)
                /\ res'.hashed \cap denied = {}
          /\ res'.status = "error" =>
                /\ res'.hash = NoHash /\ ~res'.generated /\ res'.model = <<>>
                /\ UNCHANGED DiskVars]_vars

\* EnsureUpToDate had to hash a file that cannot be opened and failed; the
\* outputs of the earlier run are in place
C11_Witness ==
  /\ res.op = "EnsureUpToDate" /\ res.status = "error"
  /\ ExistingFiles \cap denied # {} /\ ~WalkFails(CurTree)
  /\ outDisk.exists /\ stateDisk.kind = "ok"

\* the previous operation was a generating run and this step is one too
TwoGeneratingRuns ==
  /\ nRuns' # nRuns
  /\ res.op = "EnsureUpToDate" /\ res.status = "ok" /\ res.generated
  /\ res'.op = "EnsureUpToDate" /\ res'.status = "ok" /\ res'.generated
UnitHashes(hashes, rel) == {h \in hashes : DirOf(h[1]) = rel}
PackagesOf(model, rel) == {model[i] : i \in {j \in 1..Len(model) : model[j].RelativePath = rel}}
SameUnitIsReused(rel) ==
  (UnitHashes(res.contentHashes, rel) = UnitHashes(res'.contentHashes, rel)) =>
    /\ rel \notin res'.analyzed
    /\ PackagesOf(res'.model, rel) = PackagesOf(res.model, rel)

CachedRead ==
  cachedPackagesByPath(readState(stateFileCache, stateDisk).state,
                       readAnalysisCache(analysisFileCache, analysisDisk).cache,
                       OptsIncludeTests, OptsLargePackageFiles, ModulePathOfTree)
FreshFingerprintOk(plan, hashes) ==
  /\ plan.Fingerprint # NoHash
  /\ Len(plan.Fingerprint[1]) = Len(plan.FileRelPaths)
  /\ \A i \in 1..Len(plan.FileRelPaths) :
        /\ plan.Fingerprint[1][i][1] = plan.FileRelPaths[i]
        /\ plan.Fingerprint[1][i] \in hashes

\* C13: in a generating run a plan's unit is taken from the cache exactly
\* when the cache read holds a package under the plan's relative path whose
\* fingerprint equals the plan's freshly computed, non-empty fingerprint;
\* every other unit is analysed.
C13_ReuseOnlyOnFingerprint ==
  [][(nRuns' # nRuns /\ res'.generated) =>
        \A k \in 1..Len(res'.plans) :
          LET plan == res'.plans[k]
              found == cachedByRel(CachedRead, plan.RelativePath)
          IN /\ FreshFingerprintOk(plan, res'.contentHashes)
             /\ (plan.RelativePath \notin res'.analyzed) <=>
                  \E j \in found : /\ plan.Fingerprint # NoHash
                                   /\ CachedRead[j].Fingerprint = plan.Fingerprint
             /\ (plan.RelativePath \notin res'.analyzed) =>
                  \E j \in found : PackagesOf(res'.model, plan.RelativePath)
                                     = {CachedRead[j].Package}]_vars

\* a run found the unit of a changed file in the cache under another
\* fingerprint and analysed it again
C13_Witness ==
  /\ res.op = "EnsureUpToDate" /\ res.generated
  /\ \E k \in 1..Len(res.plans), j \in 1..Len(analysisDisk.data.Packages) :
        /\ res.plans[k].RelativePath \in res.analyzed
        /\ analysisDisk.data.Packages[j].RelativePath = res.plans[k].RelativePath
        /\ analysisDisk.data.Packages[j].Fingerprint # res.plans[k].Fingerprint
  /\ \E k \in 1..Len(res.plans) : res.plans[k].RelativePath \notin res.analyzed

\* the analysis cache a run is about to read was written under another
\* version, include-tests flag, detail threshold or module path
ScopeDiffers ==
  LET c == IF analysisFileCache.cached THEN analysisFileCache.v ELSE analysisDisk.data
  IN /\ analysisFileCache.cached \/ analysisDisk.kind = "ok"
     /\ ~c.isNil
     /\ \/ c.Version # analysisCacheVersionV2
        \/ c.IncludeTests # OptsIncludeTests
        \/ c.LargePackageFiles # OptsLargePackageFiles
        \/ c.ModulePath # ModulePathOfTree

\* C14: a generating run that reads an analysis cache whose version,
\* include-tests flag, detail threshold or module path differs from its own
\* is offered no cached package and analyses every unit it plans.
C14_ScopeMismatchIgnoresCache ==
  [][(nRuns' # nRuns /\ res'.generated /\ ScopeDiffers) =>
        /\ CachedRead = <<>> /\ res'.cacheUsable = 0
        /\ res'.analyzed = {res'.plans[k].RelativePath : k \in 1..Len(res'.plans)}
        /\ ~ScopeDiffers']_vars

\* a run read a cache with packages written under another option and
\* analysed both of its units
C14_Witness ==
  /\ res.op = "EnsureUpToDate" /\ res.generated
  /\ res.cacheRead > 0 /\ res.cacheUsable = 0
  /\ ~readState(stateFileCache, stateDisk).state.isNil /\ nRuns >= 2
  /\ Cardinality(res.analyzed) = 2

\* C15: in a generating run a unit whose analysis fails is left out of the
\* model, every other planned unit is in the model with its result, and
\* the run returns without error.
C15_BrokenUnitSkipped ==
  [][(nRuns' # nRuns /\ res'.op = "EnsureUpToDate" /\ res'.analyzed # {}) =>
        /\ res'.status = "ok" /\ res'.generated
        /\ \A k \in 1..Len(res'.plans) :
             LET rel == res'.plans[k].RelativePath
             IN IF rel \in res'.analyzed
                  THEN PackagesOf(res'.model, rel) = {analyzePackage(CurTree, rel)} \ {NoPackage}
                  ELSE \E j \in cachedByRel(CachedRead, rel) :
                         PackagesOf(res'.model, rel) = {CachedRead[j].Package}
        /\ Len(res'.model) = Cardinality(Rendered(res'.model))
        /\ Rendered(res'.model) \subseteq {res'.plans[k].RelativePath : k \in 1..Len(res'.plans)}]_vars

\* a run planned two units, the analysis of one failed, and the model
\* holds the other
C15_Witness ==
  /\ res.op = "EnsureUpToDate" /\ res.status = "ok" /\ res.generated
  /\ Len(res.plans) = 2 /\ Len(res.model) = 1
  /\ \E rel \in res.analyzed : ParseDirFails(CurTree, rel) /\ rel \notin Rendered(res.model)

\* C16: the aggregate hash of the tree is the same whether the files are
\* listed in the order of the walk or in another order (here: sorted by
\* relative path, the order of an index rebuilt from the state file), with
\* no cache passed in.
C16_HashOrderIndependent ==
  LET idx == BuildFileIndex(CurTree)
      sorted == [idx EXCEPT !.Files = SortSeq(@, RelPathLess)]
  IN computeAggregateHashOnly(idx, NilState, CurTree, FALSE).hash
       = computeAggregateHashOnly(sorted, NilState, CurTree, FALSE).hash

EntryPaths(state) == {state.Entries[i].RelPath : i \in 1..Len(state.Entries)}
\* the state records the files of the tree and one file that is gone
DeletedSince(state, p) ==
  /\ ~state.isNil /\ ~fs[p].exists
  /\ p \notin ExistingFiles /\ EntryPaths(state) = ExistingFiles \cup {p}
  /\ Len(state.Entries) = Cardinality(ExistingFiles) + 1
RegeneratingRun ==
  /\ nRuns' # nRuns
  /\ res'.op = "EnsureUpToDate" /\ res'.status = "ok" /\ res'.generated

NotStaleNow ==
  LET fresh(r) == r.out.status = "ok" /\ ~r.out.stale
  IN fresh(IsStale(NeverCancelled))

\* C18: EnsureUpToDate run over outputs that are not stale generates
\* nothing and leaves the output files, the cache state file, the analysis
\* cache file and their temporary files as they are.
C18_FreshWritesNothing ==
  [][(nRuns' # nRuns /\ res'.op = "EnsureUpToDate" /\ NotStaleNow) =>
        /\ res'.status = "ok" /\ ~res'.generated /\ ~res'.wrote
        /\ UNCHANGED DiskVars]_vars

\* EnsureUpToDate returned without generating, over outputs and caches an
\* earlier run had written
C18_Witness ==
  /\ res.op = "EnsureUpToDate" /\ res.status = "ok" /\ ~res.generated
  /\ outDisk.exists /\ pathsDisk.exists /\ stateDisk.kind = "ok"
  /\ analysisDisk.kind = "ok" /\ NotStaleNow

\* the languages of the index of the last call and the registered ones
PresentLanguages == {engine.index.Files[i].Language : i \in 1..Len(engine.index.Files)}
RegisteredIn(r) == {id \in RegistrableLanguages : r.analyzers[id] # NoAnalyzer}
DetectedAnalyzers == RegisteredIn(engine.registry) \cap PresentLanguages
Ascending(ids) == \A i, j \in 1..Len(ids) : i < j => LangLess(ids[i], ids[j])

\* C19 as stated: a call of AnalyzeWithRegistry over a snapshot that holds a
\* registered language runs the analyzers of exactly the registered
\* languages that occur in the snapshot, each once, in ascending order of
\* identifier.
C19_RunsDetectedInOrder ==
  (engine.op = "AnalyzeWithRegistry" /\ DetectedAnalyzers # {}) =>
    /\ Range(engine.calls) = DetectedAnalyzers
    /\ Len(engine.calls) = Cardinality(DetectedAnalyzers)
    /\ Ascending(engine.calls)

\* C19, amended: the analyzers of the registered languages that occur in the
\* snapshot are run in ascending order of identifier, each at most once and
\* no other analyzer; all of them when none returns an error, and otherwise
\* those up to and including the first that returns an error, whose error
\* the call returns with no model.
C19_RunsDetectedUntilError ==
  (engine.op = "AnalyzeWithRegistry" /\ DetectedAnalyzers # {}) =>
    LET failing == {id \in DetectedAnalyzers : engine.registry.analyzers[id] = "error"}
        before(id) == \A f \in failing : ~LangLess(f, id)
    IN /\ Ascending(engine.calls)
       /\ Len(engine.calls) = Cardinality(Range(engine.calls))
       /\ Range(engine.calls) = {id \in DetectedAnalyzers : before(id)}
       /\ engine.status = IF failing = {} THEN "ok" ELSE "error"
       /\ engine.status = "error" => engine.packages = <<>>
       /\ engine.status = "ok" =>
            {engine.packages[i].lang : i \in 1..Len(engine.packages)}
              = {id \in DetectedAnalyzers : engine.registry.analyzers[id] # "nil"}

\* every analyzer was registered, the snapshot held the languages of two of
\* them, listed in descending order, and these two were run in ascending
\* order
C19_Witness ==
  /\ engine.op = "AnalyzeWithRegistry" /\ engine.status = "ok"
  /\ RegisteredIn(engine.registry) = RegistrableLanguages /\ ~engine.defaulted
  /\ engine.index.Files = <<[Language |-> languageRust], [Language |-> languageGo]>>
  /\ engine.calls = <<languageGo, languageRust>>

\* the analyzer the fallback names for a registry with an analyzer in it
DefaultLanguage(r) ==
  IF languageGo \in RegisteredIn(r) THEN languageGo
  ELSE CHOOSE id \in RegisteredIn(r) : \A other \in RegisteredIn(r) : ~LangLess(other, id)

\* C20: a call of AnalyzeWithRegistry with at least one analyzer registered,
\* over a snapshot with no file of a registered language, runs one analyzer,
\* that of Go if registered and else that of the first registered identifier
\* in lexicographic order, and returns what it returned: its packages, or
\* its error.
C20_FallbackRunsDefault ==
  (/\ engine.op = "AnalyzeWithRegistry" /\ ~engine.index.isNil
   /\ RegisteredIn(engine.registry) # {} /\ DetectedAnalyzers = {}) =>
    LET returned(id, kind) ==
          /\ engine.fellBack /\ engine.selected = <<id>> /\ engine.calls = <<id>>
          /\ engine.status = IF kind = "error" THEN "error" ELSE "ok"
          /\ engine.err # "no analyzers registered"
          /\ kind \in {"model", "bare"} => engine.packages = AnalyzerPackages(id)
          /\ kind \in {"nil", "error"} => engine.packages = <<>>
          /\ kind = "model" => engine.concerns = AnalyzerConcerns(id, kind)
    IN returned(DefaultLanguage(engine.registry),
                engine.registry.analyzers[DefaultLanguage(engine.registry)])

\* with Go registered next to an analyzer that sorts before it, a snapshot of
\* files of no registered language was handed to the Go analyzer
C20_Witness ==
  /\ engine.op = "AnalyzeWithRegistry" /\ engine.status = "ok" /\ ~engine.defaulted
  /\ {languageCustom, languageGo} \subseteq RegisteredIn(engine.registry)
  /\ Len(engine.index.Files) > 0 /\ DetectedAnalyzers = {}
  /\ languageOther \in PresentLanguages
  /\ engine.calls = <<languageGo>> /\ Len(engine.packages) = 1

\* C21: a call of AnalyzeWithRegistry on a registry with no analyzer in it
\* returns the error "no analyzers registered" (or, without an index, the
\* error of the missing index) with no model, has run no analyzer, and
\* leaves every file as it was.
C21_EmptyRegistryAborts ==
  /\ []((engine.op = "AnalyzeWithRegistry" /\ RegisteredIn(engine.registry) = {}) =>
          /\ engine.status = "error"
          /\ engine.calls = <<>> /\ engine.selected = <<>>
          /\ engine.packages = <<>> /\ engine.concerns = NilConcerns
          /\ engine.err = IF engine.index.isNil THEN "missing file index"
                          ELSE "no analyzers registered")
  /\ [][engine' # engine => UNCHANGED DiskVars]_vars

\* an empty registry was handed a snapshot with a Go file and the call
\* failed
C21_Witness ==
  /\ engine.op = "AnalyzeWithRegistry" /\ ~engine.defaulted
  /\ RegisteredIn(registry) = {} /\ RegisteredIn(engine.registry) = {}
  /\ engine.index.Files = <<[Language |-> languageGo]>>
  /\ engine.status = "error" /\ engine.err = "no analyzers registered"

\* the analyzers of the last call that returned a model, as positions of calls
ReturnedModel == {i \in 1..Len(engine.calls) :
                    engine.registry.analyzers[engine.calls[i]] \in {"model", "bare"}}
ConcernsReturnedAt(i) ==
  AnalyzerConcerns(engine.calls[i], engine.registry.analyzers[engine.calls[i]])

\* C22 as stated: the concerns of the merged model are the concerns of the
\* model returned by the first analyzer, in processing order, that returned
\* one.
C22_ConcernsOfFirstModel ==
  (engine.op = "AnalyzeWithRegistry" /\ engine.status = "ok" /\ ReturnedModel # {}) =>
    \E i \in ReturnedModel :
      /\ \A j \in ReturnedModel : i <= j
      /\ engine.concerns = ConcernsReturnedAt(i)

\* C22, amended: the concerns of the merged model are those of the model of
\* the analyzer at the first position of the processing order when that
\* analyzer returns a model whose concerns are not nil; otherwise they are
\* built over the whole snapshot; concerns of analyzers at later positions
\* are never used.
C22_ConcernsOfFirstPosition ==
  (engine.op = "AnalyzeWithRegistry" /\ engine.status = "ok") =>
    /\ engine.calls # <<>>
    /\ engine.concerns =
         IF ConcernsReturnedAt(1) # NilConcerns THEN ConcernsReturnedAt(1) ELSE BuiltConcerns
    /\ \A i \in 2..Len(engine.calls) : engine.concerns # engine.calls[i]

\* the first analyzer returned no model, the second a model with concerns,
\* and the merged model got concerns built over the snapshot
C22_Witness ==
  /\ engine.op = "AnalyzeWithRegistry" /\ engine.status = "ok"
  /\ Len(engine.calls) = 2
  /\ engine.registry.analyzers[engine.calls[1]] = "nil"
  /\ engine.registry.analyzers[engine.calls[2]] = "model"
  /\ engine.concerns = BuiltConcerns /\ Len(engine.packages) = 1

\* the directories of the walked tree that the documentation excludes
DocumentedExcluded(name) ==
  FirstByte[name] = "." \/ name \in {"vendor", "testdata", "workspace", "node_modules"}
ExistingWalkDirs ==
  {<<d>> : d \in {x \in WalkDirNames : wtree[x] # "absent"}}
  \cup {<<d, ChildDirName(d)>> : d \in {x \in WalkDirNames : wtree[x] = "nested"}}
IsPrefixOf(p, q) == Len(p) <= Len(q) /\ SubSeq(q, 1, Len(p)) = p

\* C23: after a walk, a directory whose name starts with '.' or is vendor,
\* testdata, workspace or node_modules is not among the root entries nor
\* among the directories of the snapshot, nothing inside it was visited,
\* and no file of the snapshot lies under it.
C23_ExcludedDirsPruned ==
  walkRes.op = "BuildFileIndex" =>
    \A p \in ExistingWalkDirs :
      DocumentedExcluded(p[Len(p)]) =>
        /\ Len(p) = 1 => p[1] \notin Range(walkRes.RootEntries)
        /\ p \notin Range(walkRes.Dirs)
        /\ \A q \in walkRes.visited : IsPrefixOf(p, q) => q = p
        /\ \A q \in Range(walkRes.Files) : ~IsPrefixOf(p, q)

\* C24: once the cancellation signal is set, no job body begins any more, in
\* either pool and for any number of workers
C24_NoStartAfterCancel == [][ctxDone => ptrace'.started = ptrace.started]_vars

\* a job of the hash pool has failed and the signal is set
HashFailedAndSignalled == pcall.kind = "hash" /\ ptrace.firstFailed # 0 /\ ctxDone
\* what a call of the hash pool returns once a job has failed
HashFailureReturned ==
  pcall.kind = "hash" /\ pcall.ret # "none" /\ ptrace.firstFailed # 0
    => /\ pcall.ret = "error" /\ pcall.retErr = ptrace.firstFailed
       /\ pcall.workers > 1 => ctxDone /\ AllWorkersDone

\* C25 as stated: once a hash job has failed and the signal is raised, no
\* further job is handed to a worker and none is begun, and the call returns
\* the error of the job that failed first
C25_FailureStopsDispatch ==
  /\ []HashFailureReturned
  /\ [][HashFailedAndSignalled =>
          ptrace'.handed = ptrace.handed /\ ptrace'.started = ptrace.started]_vars

\* C25 amended: once a hash job has failed and the signal is raised, no job
\* body begins any more (a job may still be handed to a worker, which drops
\* it), every worker has returned when the call returns, and the call
\* returns the error of the job that failed first
C25_FailureStopsJobs ==
  /\ []HashFailureReturned
  /\ [][HashFailedAndSignalled => ptrace'.started = ptrace.started]_vars

\* a failed hash call of a pool in which a job was handed to a worker that
\* found the signal set and dropped it
C25_Witness ==
  /\ pcall.kind = "hash" /\ pcall.workers > 1 /\ pcall.ret = "error"
  /\ pcall.retErr = ptrace.firstFailed
  /\ ptrace.handed \ ptrace.started # {}

\* the single-worker loop over the jobs k..n, run to its end: the output, or
\* the failure of a hash job
RECURSIVE sequentialRun(_, _, _, _, _)
sequentialRun(kind, n, fails, k, o) ==
  IF k > n THEN [status |-> "ok", out |-> o]
  ELSE IF k \in fails
    THEN IF kind = "hash" THEN [status |-> "error", out |-> o]
         ELSE sequentialRun(kind, n, fails, k + 1, o)
  ELSE sequentialRun(kind, n, fails, k + 1, [o EXCEPT ![JobIndex(k)] = ResultOf(k)])
SequentialOutput ==
  sequentialRun(pcall.kind, pcall.n, pcall.fails, 1, [s \in Slots(pcall.n) |-> 0])

\* C26: after a successful pool run, whatever the interleaving, every job's
\* result is in the slot of that job's index, no other slot was written, and
\* the output is that of the single-worker loop over the same jobs
C26_ResultsAtOwnIndex ==
  pcall.ret = "ok" =>
    /\ \A j \in 1..pcall.n :
         poolOut[JobIndex(j)] = IF j \in pcall.fails THEN 0 ELSE ResultOf(j)
    /\ ptrace.written \subseteq {JobIndex(j) : j \in 1..pcall.n}
    /\ \A x \in Slots(pcall.n) \ ptrace.written : poolOut[x] = 0
    /\ SequentialOutput.status = "ok" /\ poolOut = SequentialOutput.out

\* a successful run of a pool in which a later job ended before an earlier
\* one
C26_Witness ==
  /\ pcall.ret = "ok" /\ pcall.workers > 1
  /\ ptrace.overtaken /\ ptrace.written # {}

\* the call has returned and no goroutine of it is left
PoolAtRest == pcall.ret # "none" /\ AllWorkersDone /\ ~pcall.dispatching
\* a call that returns while the signal is not set leaves no job behind
ReturnedClean ==
  pcall.ret # "none" /\ ~ctxDone => ~ptrace.openAtReturn /\ AllWorkersDone

\* C27: every pool call returns and its dispatcher and workers end, whatever
\* the jobs, the workers, the failing jobs and the moment of cancellation;
\* when it returns without cancellation every job handed to a worker has
\* ended
C27_PoolReturns ==
  /\ (pcall.mpc # "idle") ~> PoolAtRest
  /\ []ReturnedClean

\* a cancelled call that returned while jobs were still running, after
\* which its goroutines ended
C27_Witness ==
  /\ pcall.ret = "cancelled" /\ pcall.workers > 1
  /\ ptrace.openAtReturn /\ PoolAtRest

\* a recompute over a fresh walk of the tree as it is now, with the cache
\* state the process would read as the prior state
RecomputeNow ==
  computeAggregateHash(BuildFileIndex(CurTree), StateNow, CurTree, 1, FALSE, FALSE)
\* the entries of the prior state that carry a content hash and agree with
\* the file p of the tree in relative path, size and modification time
PriorEntriesFor(p) ==
  {e \in EntriesFor(StateNow, p) :
     /\ StateNow.Version = codemapStateVersion
     /\ e.Size = SizeOf(fs[p].c) /\ e.M = fs[p].m
     /\ e.ContentHash # NoContentHash}

\* C28: a recompute reads and hashes exactly the files for which the prior
\* state holds no entry of the same relative path, size and modification
\* time with a content hash; every other file gets the prior content hash
C28_HashedIffNoPriorEntry ==
  RecomputeNow.status = "ok" =>
    /\ RecomputeNow.hashed = {p \in ExistingFiles : PriorEntriesFor(p) = {}}
    /\ \A p \in ExistingFiles \ RecomputeNow.hashed :
          \A n \in EntriesFor(RecomputeNow.next, p) :
            \E e \in PriorEntriesFor(p) : n.ContentHash = e.ContentHash

\* the persisted state agrees with the tree in everything the metadata check
\* compares: root entry names, directory times, file sizes and times, and
\* every file entry carries a content hash and resolves to a language
MetadataMatches ==
  /\ StateUsable(StateNow)
  /\ {StateNow.RootEntries[i] : i \in 1..Len(StateNow.RootEntries)} \ IgnoredRootEntries
       = CurTree.names \ IgnoredRootEntries
  /\ \A i \in 1..Len(StateNow.Dirs) : dirA.exists /\ dirA.m = StateNow.Dirs[i].M
  /\ \A i \in 1..Len(StateNow.Entries) :
       LET e == StateNow.Entries[i]
       IN /\ fs[e.RelPath].exists /\ e.RelPath \notin denied
          /\ e.Size = SizeOf(fs[e.RelPath].c) /\ e.M = fs[e.RelPath].m
          /\ e.ContentHash # NoContentHash
          /\ resolveStateEntryLanguage(e).ID # ""
\* both outputs carry a hash, so IsStale goes on to the tree
OutputsHashed ==
  /\ ReadExistingHash(hashFileCache.out, outDisk).hash # NoHash
  /\ ReadExistingHash(hashFileCache.paths, pathsDisk).hash # NoHash

\* what IsStale does when it takes the persisted hash
TakesPersistedHash ==
  /\ Tier1Now.ok /\ Tier1Now.hash = StateNow.AggregateHash
  /\ res'.status = "ok" /\ res'.hash = StateNow.AggregateHash
  /\ res'.fromCache /\ res'.hashed = {} /\ ~res'.walked

\* C29 as stated: when the persisted state agrees with the tree in all
\* metadata, the metadata check accepts the persisted aggregate hash and
\* IsStale takes it without reading a file and without walking the tree
C29_MetadataMatchIsValid ==
  [][(nRuns' # nRuns /\ res'.op = "IsStale" /\ MetadataMatches /\ OutputsHashed) =>
        TakesPersistedHash]_vars

\* C29 amended: the same, for a persisted state that records at least one
\* root entry name
C29_MetadataMatchWithRootEntries ==
  [][(/\ nRuns' # nRuns /\ res'.op = "IsStale" /\ MetadataMatches /\ OutputsHashed
      /\ Len(StateNow.RootEntries) > 0) =>
        TakesPersistedHash]_vars

\* IsStale took the persisted hash of a state that records both files and
\* the directory, read nothing and did not walk
C29_Witness ==
  /\ res.op = "IsStale" /\ res.status = "ok" /\ res.fromCache /\ ~res.walked
  /\ res.hashed = {} /\ MetadataMatches /\ res.hash = StateNow.AggregateHash
  /\ Len(StateNow.Entries) = 2 /\ Len(StateNow.Dirs) = 1

\* the cache states at hand: the one in the state file, the one in the
\* process-wide read cache and the one a read returns
StatesAtHand ==
  {st \in {stateDisk.data, stateFileCache.v, StateNow} : ~st.isNil}

\* C30: the files and directories of the snapshot of a walk, and the file
\* and directory entries of every cache state computed, persisted or read,
\* are in ascending order of relative path
C30_EntriesAscending ==
  /\ IsSortedByRelPath(BuildFileIndex(CurTree).Files)
  /\ IsSortedByRelPath(BuildFileIndex(CurTree).Dirs)
  /\ IsSortedByRelPath(RecomputeNow.next.Entries)
  /\ \A st \in StatesAtHand :
        IsSortedByRelPath(st.Entries) /\ IsSortedByRelPath(st.Dirs)

\* what parsing the files on disk gives, with nothing in the read caches
StateOnDisk == readState(NotCached(NilState), stateDisk).state
AnalysisOnDisk == readAnalysisCache(NotCached(NilAnalysis), analysisDisk).cache
OutputHashOnDisk == ReadExistingHash(NotCached(NoHash), outDisk).hash
PathsHashOnDisk == ReadExistingHash(NotCached(NoHash), pathsDisk).hash

\* C31: reading the cache state, the analysis cache or the hash of an output
\* returns what parsing the file now on disk gives
C31_ReadsAgreeWithDisk ==
  /\ StateNow = StateOnDisk
  /\ readAnalysisCache(analysisFileCache, analysisDisk).cache = AnalysisOnDisk
  /\ ReadExistingHash(hashFileCache.out, outDisk).hash = OutputHashOnDisk
  /\ ReadExistingHash(hashFileCache.paths, pathsDisk).hash = PathsHashOnDisk

\* the verdict IsStale gives for the tree, outputs and caches as they are
StaleVerdictNow == IsStale(NeverCancelled).out
\* the step is a call of EnsureUpToDate that ran to its end
EnsureRan ==
  /\ nRuns' # nRuns /\ res'.op = "EnsureUpToDate"
  /\ res'.status = "ok" /\ res'.cancelAt = NeverCancelled

\* C32: a call of EnsureUpToDate regenerates the outputs exactly when
\* IsStale, called on the same tree, outputs and persisted state, returns
\* true
C32_GeneratesIffStale ==
  [][EnsureRan =>
       /\ StaleVerdictNow.status = "ok"
       /\ res'.generated <=> StaleVerdictNow.stale]_vars

\* EnsureUpToDate hashed a file again, found the outputs up to date and
\* generated nothing, and IsStale gives the same verdict
C32_Witness ==
  /\ res.op = "EnsureUpToDate" /\ res.status = "ok" /\ res.cancelAt = NeverCancelled
  /\ ~res.generated /\ res.hashed # {}
  /\ StaleVerdictNow.status = "ok" /\ ~StaleVerdictNow.stale

\* the index tier 2 rebuilds from the cache state, for the tree as it is
IndexFromStateNow ==
  buildFileIndexFromState(CurTree, StateNow, IgnoredRootEntries, FALSE)

PairsOf(h) == IF h = NoHash THEN {} ELSE Range(h[1])
\* the pair of a tracked file as it is now
PairNow(p) == <<p, hashFileContents(fs[p].c)>>
\* the hash recorded in the markdown output was computed from every tracked
\* file's content as it is now
OutputFromFinalContent ==
  /\ outDisk.hash # NoHash
  /\ PairsOf(outDisk.hash) = {PairNow(p) : p \in ExistingFiles}
\* a staleness check has answered "not stale" after a run that returned, the
\* tree having been rewritten while the run was under way and not since
NotStaleAfterRacedRun ==
  /\ res.op = "IsStale" /\ res.status = "ok" /\ ~res.stale
  /\ rc.last = "returned" /\ rc.modified /\ ~rc.after

\* C34 as stated: when a tracked file is rewritten while a run is under way
\* and a later staleness check answers "not stale", the hash recorded in the
\* outputs was computed from the file's final content
C34_NotStaleMeansFinalContent ==
  NotStaleAfterRacedRun => OutputFromFinalContent

\* the size and modification time of p are those the cache state records
RecordedMetadataIsCurrent(p) ==
  \E e \in EntriesFor(StateNow, p) :
    e.Size = SizeOf(fs[p].c) /\ e.M = fs[p].m

\* how far the answer can be wrong: after such a run a "not stale" answer
\* means that, for each tracked file, the hash in the outputs was computed
\* from its final content or its size and modification time are still the
\* ones the cache state records
RacedRunWithinMetadataLimit ==
  NotStaleAfterRacedRun =>
    /\ outDisk.hash # NoHash
    /\ {pr[1] : pr \in PairsOf(outDisk.hash)} = ExistingFiles
    /\ \A p \in ExistingFiles :
         PairNow(p) \in PairsOf(outDisk.hash) \/ RecordedMetadataIsCurrent(p)

\* a file rewritten between its stat and its hashing, at a later time than
\* the snapshot saw: the check rehashes it and answers "not stale"
RacedRunRehashed ==
  /\ NotStaleAfterRacedRun /\ OutputFromFinalContent
  /\ \E p \in ExistingFiles : ~RecordedMetadataIsCurrent(p)

\* a run has stopped after an output file was written and before the cache
\* state was persisted, the tree not having been changed while it ran
StoppedBeforePersist == rc.last \in {"error", "crash"} /\ ~rc.modified

C36_PathAlwaysComplete ==
  /\ stateDisk.kind \in {"absent", "ok"}
  /\ stateDisk.kind = "ok" => stateDisk.data \in StateData

\* a write has failed on disk and the next call of the same process comes
\* inside the flush interval
CallAfterFailedWrite(w) ==
  /\ writers[w].pc = "idle" /\ writers[w].ret = "error"
  /\ clock - writers[w].last < writeFlushInterval
  /\ nRuns' = nRuns + 1 /\ writers'[w] # writers[w]

\* C37: a write issued inside the flush interval after a write that failed
\* on disk goes to the disk again
C37_FailedWriteDoesNotSuppress ==
  [][\A w \in Writers : CallAfterFailedWrite(w) => writers'[w].pc = "marshalled"]_vars

\* the languages whose unit the persisted analysis cache holds
CachedLanguages ==
  IF lrun.cache.isNil THEN {}
  ELSE {lrun.cache.Packages[k].RelativePath : k \in 1..Len(lrun.cache.Packages)}

\* C38: after a run that executed the analysers of several languages the
\* persisted analysis cache holds the cached unit of every executed language
C38_CacheHoldsEveryLanguage ==
  Len(lrun.executed) >= 2 => Range(lrun.executed) \subseteq CachedLanguages

\* the member files of the unit rel, and whether one of them lacks a hash
UnitMembers(rel) == {p \in fprun.members : DirOf(p) = rel}
UnitLacksHash(rel) ==
  \E p \in UnitMembers(rel) : fprun.hashes[p] \in {NoStateEntry, NoContentHash}
\* the digest over the (path, content hash) pairs of the members in path order
SortedPairsDigest(rel) ==
  LET paths == SetToSortedSeq(UnitMembers(rel))
  IN << [i \in 1..Len(paths) |-> <<paths[i], fprun.hashes[paths[i]]>>] >>

\* C39: a unit's fingerprint is empty when a member file lacks a content
\* hash, and is otherwise the digest of the path-sorted (path, content hash)
\* pairs of its members, whatever the order of the index
C39_FingerprintOfSortedPairs ==
  fprun.planned =>
    /\ {fprun.plans[k].RelativePath : k \in 1..Len(fprun.plans)}
         = {DirOf(p) : p \in fprun.members}
    /\ \A k \in 1..Len(fprun.plans) :
         fprun.plans[k].Fingerprint =
           IF UnitLacksHash(fprun.plans[k].RelativePath) THEN NoHash
           ELSE SortedPairsDigest(fprun.plans[k].RelativePath)

\* an index in walk order with a unit of two hashed files and a unit whose
\* file has no content hash
C39_Witness ==
  /\ fprun.planned /\ fprun.order = "walk"
  /\ \E k \in 1..Len(fprun.plans) :
       /\ Len(fprun.plans[k].FileRelPaths) = 2
       /\ fprun.plans[k].Fingerprint # NoHash
  /\ \E k \in 1..Len(fprun.plans) : fprun.plans[k].Fingerprint = NoHash

\* the executors of the call: the calling goroutine when the count is one,
\* the goroutines of the pool otherwise
PoolExecutors ==
  IF pcall.kind = "none" \/ pcall.n = 0 THEN 0
  ELSE IF pcall.workers = 1 THEN 1 ELSE Len(workersSt)

\* jobs whose body has begun and not ended
JobsInProgress == ptrace.started \ ptrace.finished

\* C40: a call never has more workers than jobs: the count is the hardware
\* parallelism capped at the number of jobs, at least one when there is a
\* job, as many goroutines are started as the count says, and no more jobs
\* are in progress at once than there are workers
C40_WorkersCappedAtJobs ==
  pcall.kind # "none" =>
    /\ pcall.workers = (IF pcall.procs < pcall.n THEN pcall.procs ELSE pcall.n)
    /\ pcall.workers <= pcall.n
    /\ pcall.n >= 1 => pcall.workers >= 1
    /\ PoolExecutors = pcall.workers
    /\ PoolExecutors <= pcall.n
    /\ Cardinality(JobsInProgress) <= pcall.workers

\* a call on fewer jobs than the parallelism has ended one of them
C40_Witness ==
  /\ pcall.kind # "none" /\ pcall.n >= 1 /\ pcall.procs > pcall.n
  /\ pcall.workers = pcall.n
  /\ ptrace.finished # {}

====
